---- MODULE Spec2Model ----
(***************************************************************************)
(* Model of the WebSocket-to-TCP relay of src/index.js (the variant with   *)
(* the DoH resolver, lines 199-519): one session (handleSession), its dial *)
(* strategy (connectToRemote) and the shared resolver (resolveDoH).        *)
(*                                                                         *)
(* A string is the sequence of its UTF-16 code units, the numbers 0..65535, *)
(* as in JavaScript: "h:8" is <<104,58,56>>.  The comment at the end of a  *)
(* line gives the text of the strings written on that line.  The parsing   *)
(* and the error classification are computed on these sequences as the     *)
(* code computes them.  Indexes of the string helpers are 0-based, as in   *)
(* JavaScript.                                                             *)
(***************************************************************************)
EXTENDS Integers, Sequences, FiniteSets, TLC

----------------------------------------------------------------------------
(* JavaScript string primitives used by the source.                         *)

Min(a, b) == IF a < b THEN a ELSE b
Max(a, b) == IF a > b THEN a ELSE b

\* String.prototype.substring(a, b): clamps both indexes to [0, length] and
\* swaps them when a > b.
Substring(s, a, b) ==
  LET ca == Max(0, Min(a, Len(s)))
      cb == Max(0, Min(b, Len(s)))
  IN SubSeq(s, Min(ca, cb) + 1, Max(ca, cb))

\* String.prototype.substring(a): to the end of the string.
SubstringFrom(s, a) == Substring(s, a, Len(s))

\* String.prototype.startsWith(p)
StartsWith(s, p) == Len(s) >= Len(p) /\ SubSeq(s, 1, Len(p)) = p

\* String.prototype.indexOf(ch, from): first 0-based index >= from, or -1.
IndexOf(s, ch, from) ==
  LET hits == {k \in Max(0, from)..(Len(s) - 1) : s[k + 1] = ch}
  IN IF hits = {} THEN -1 ELSE CHOOSE k \in hits : \A j \in hits : k <= j

\* String.prototype.lastIndexOf(ch): last 0-based index, or -1.
LastIndexOf(s, ch) ==
  LET hits == {k \in 0..(Len(s) - 1) : s[k + 1] = ch}
  IN IF hits = {} THEN -1 ELSE CHOOSE k \in hits : \A j \in hits : k >= j

\* String.prototype.includes(sub)
Includes(s, sub) ==
  \E k \in 0..(Len(s) - Len(sub)) : SubSeq(s, k + 1, k + Len(sub)) = sub

\* The concatenation of a sequence of sequences.
RECURSIVE Concat(_)
Concat(ss) ==
  IF ss = <<>> THEN <<>>
  ELSE IF Len(ss) = 1 THEN ss[1]
  ELSE Concat(SubSeq(ss, 1, Len(ss) \div 2))
       \o Concat(SubSeq(ss, (Len(ss) \div 2) + 1, Len(ss)))

\* The code points of a string: a high surrogate followed by a low one is
\* one code point, every other code unit stands for itself.
Pairs(s) ==
  LET lead(i)  == /\ i < Len(s)
                  /\ s[i] \in 55296..56319
                  /\ s[i + 1] \in 56320..57343
      trail(i) == i > 1 /\ lead(i - 1)
  IN Concat([i \in 1..Len(s) |->
       IF trail(i) THEN <<>>
       ELSE IF lead(i)
            THEN <<65536 + (s[i] - 55296) * 1024 + (s[i + 1] - 56320)>>
            ELSE <<s[i]>>])
CodePoints(s) ==
  IF \A k \in 1..Len(s) : s[k] \notin 55296..57343 THEN s ELSE Pairs(s)

\* The UTF-16 code units of a sequence of code points.
Utf16(cps) ==
  IF \A k \in 1..Len(cps) : cps[k] < 65536 THEN cps
  ELSE Concat([k \in 1..Len(cps) |->
         IF cps[k] < 65536 THEN <<cps[k]>>
         ELSE <<55296 + (cps[k] - 65536) \div 1024,
                56320 + ((cps[k] - 65536) % 1024)>>])

\* The tables below are those of Unicode 15, the version of the runtime
\* (FROM node:18-alpine).
\* The simple lower-case mappings of Unicode outside ASCII, as rules
\* <<first, last, step, delta>>: every code point first, first + step, ...,
\* last is mapped to itself plus delta.
LowerRules ==
  << <<192,214,1,32>>, <<216,222,1,32>>, <<256,302,2,1>>, <<306,310,2,1>>, <<313,327,2,1>>, <<330,374,2,1>>,
     <<376,376,1,-121>>, <<377,381,2,1>>, <<385,385,1,210>>, <<386,388,2,1>>, <<390,390,1,206>>, <<391,391,1,1>>,
     <<393,394,1,205>>, <<395,395,1,1>>, <<398,398,1,79>>, <<399,399,1,202>>, <<400,400,1,203>>, <<401,401,1,1>>,
     <<403,403,1,205>>, <<404,404,1,207>>, <<406,406,1,211>>, <<407,407,1,209>>, <<408,408,1,1>>, <<412,412,1,211>>,
     <<413,413,1,213>>, <<415,415,1,214>>, <<416,420,2,1>>, <<422,422,1,218>>, <<423,423,1,1>>, <<425,425,1,218>>,
     <<428,428,1,1>>, <<430,430,1,218>>, <<431,431,1,1>>, <<433,434,1,217>>, <<435,437,2,1>>, <<439,439,1,219>>,
     <<440,440,1,1>>, <<444,444,1,1>>, <<452,452,1,2>>, <<453,453,1,1>>, <<455,455,1,2>>, <<456,456,1,1>>,
     <<458,458,1,2>>, <<459,475,2,1>>, <<478,494,2,1>>, <<497,497,1,2>>, <<498,500,2,1>>, <<502,502,1,-97>>,
     <<503,503,1,-56>>, <<504,542,2,1>>, <<544,544,1,-130>>, <<546,562,2,1>>, <<570,570,1,10795>>, <<571,571,1,1>>,
     <<573,573,1,-163>>, <<574,574,1,10792>>, <<577,577,1,1>>, <<579,579,1,-195>>, <<580,580,1,69>>, <<581,581,1,71>>,
     <<582,590,2,1>>, <<880,882,2,1>>, <<886,886,1,1>>, <<895,895,1,116>>, <<902,902,1,38>>, <<904,906,1,37>>,
     <<908,908,1,64>>, <<910,911,1,63>>, <<913,929,1,32>>, <<931,939,1,32>>, <<975,975,1,8>>, <<984,1006,2,1>>,
     <<1012,1012,1,-60>>, <<1015,1015,1,1>>, <<1017,1017,1,-7>>, <<1018,1018,1,1>>, <<1021,1023,1,-130>>, <<1024,1039,1,80>>,
     <<1040,1071,1,32>>, <<1120,1152,2,1>>, <<1162,1214,2,1>>, <<1216,1216,1,15>>, <<1217,1229,2,1>>, <<1232,1326,2,1>>,
     <<1329,1366,1,48>>, <<4256,4293,1,7264>>, <<4295,4295,1,7264>>, <<4301,4301,1,7264>>, <<5024,5103,1,38864>>, <<5104,5109,1,8>>,
     <<7312,7354,1,-3008>>, <<7357,7359,1,-3008>>, <<7680,7828,2,1>>, <<7838,7838,1,-7615>>, <<7840,7934,2,1>>, <<7944,7951,1,-8>>,
     <<7960,7965,1,-8>>, <<7976,7983,1,-8>>, <<7992,7999,1,-8>>, <<8008,8013,1,-8>>, <<8025,8031,2,-8>>, <<8040,8047,1,-8>>,
     <<8072,8079,1,-8>>, <<8088,8095,1,-8>>, <<8104,8111,1,-8>>, <<8120,8121,1,-8>>, <<8122,8123,1,-74>>, <<8124,8124,1,-9>>,
     <<8136,8139,1,-86>>, <<8140,8140,1,-9>>, <<8152,8153,1,-8>>, <<8154,8155,1,-100>>, <<8168,8169,1,-8>>, <<8170,8171,1,-112>>,
     <<8172,8172,1,-7>>, <<8184,8185,1,-128>>, <<8186,8187,1,-126>>, <<8188,8188,1,-9>>, <<8486,8486,1,-7517>>, <<8490,8490,1,-8383>>,
     <<8491,8491,1,-8262>>, <<8498,8498,1,28>>, <<8544,8559,1,16>>, <<8579,8579,1,1>>, <<9398,9423,1,26>>, <<11264,11311,1,48>>,
     <<11360,11360,1,1>>, <<11362,11362,1,-10743>>, <<11363,11363,1,-3814>>, <<11364,11364,1,-10727>>, <<11367,11371,2,1>>, <<11373,11373,1,-10780>>,
     <<11374,11374,1,-10749>>, <<11375,11375,1,-10783>>, <<11376,11376,1,-10782>>, <<11378,11378,1,1>>, <<11381,11381,1,1>>, <<11390,11391,1,-10815>>,
     <<11392,11490,2,1>>, <<11499,11501,2,1>>, <<11506,11506,1,1>>, <<42560,42604,2,1>>, <<42624,42650,2,1>>, <<42786,42798,2,1>>,
     <<42802,42862,2,1>>, <<42873,42875,2,1>>, <<42877,42877,1,-35332>>, <<42878,42886,2,1>>, <<42891,42891,1,1>>, <<42893,42893,1,-42280>>,
     <<42896,42898,2,1>>, <<42902,42920,2,1>>, <<42922,42922,1,-42308>>, <<42923,42923,1,-42319>>, <<42924,42924,1,-42315>>, <<42925,42925,1,-42305>>,
     <<42926,42926,1,-42308>>, <<42928,42928,1,-42258>>, <<42929,42929,1,-42282>>, <<42930,42930,1,-42261>>, <<42931,42931,1,928>>, <<42932,42946,2,1>>,
     <<42948,42948,1,-48>>, <<42949,42949,1,-42307>>, <<42950,42950,1,-35384>>, <<42951,42953,2,1>>, <<42960,42960,1,1>>, <<42966,42968,2,1>>,
     <<42997,42997,1,1>>, <<65313,65338,1,32>>, <<66560,66599,1,40>>, <<66736,66771,1,40>>, <<66928,66938,1,39>>, <<66940,66954,1,39>>,
     <<66956,66962,1,39>>, <<66964,66965,1,39>>, <<68736,68786,1,64>>, <<71840,71871,1,32>>, <<93760,93791,1,32>>, <<125184,125217,1,34>> >>

\* The code points with the property Cased that are not Case_Ignorable, as
\* ranges <<first, last>>.
CasedRanges ==
  << <<65,90>>, <<97,122>>, <<170,170>>, <<181,181>>, <<186,186>>, <<192,214>>, <<216,246>>, <<248,442>>,
     <<444,447>>, <<452,659>>, <<661,687>>, <<880,883>>, <<886,887>>, <<891,893>>, <<895,895>>, <<902,902>>,
     <<904,906>>, <<908,908>>, <<910,929>>, <<931,1013>>, <<1015,1153>>, <<1162,1327>>, <<1329,1366>>, <<1376,1416>>,
     <<4256,4293>>, <<4295,4295>>, <<4301,4301>>, <<4304,4346>>, <<4349,4351>>, <<5024,5109>>, <<5112,5117>>, <<7296,7304>>,
     <<7312,7354>>, <<7357,7359>>, <<7424,7467>>, <<7531,7543>>, <<7545,7578>>, <<7680,7957>>, <<7960,7965>>, <<7968,8005>>,
     <<8008,8013>>, <<8016,8023>>, <<8025,8025>>, <<8027,8027>>, <<8029,8029>>, <<8031,8061>>, <<8064,8116>>, <<8118,8124>>,
     <<8126,8126>>, <<8130,8132>>, <<8134,8140>>, <<8144,8147>>, <<8150,8155>>, <<8160,8172>>, <<8178,8180>>, <<8182,8188>>,
     <<8450,8450>>, <<8455,8455>>, <<8458,8467>>, <<8469,8469>>, <<8473,8477>>, <<8484,8484>>, <<8486,8486>>, <<8488,8488>>,
     <<8490,8493>>, <<8495,8500>>, <<8505,8505>>, <<8508,8511>>, <<8517,8521>>, <<8526,8526>>, <<8544,8575>>, <<8579,8580>>,
     <<9398,9449>>, <<11264,11387>>, <<11390,11492>>, <<11499,11502>>, <<11506,11507>>, <<11520,11557>>, <<11559,11559>>, <<11565,11565>>,
     <<42560,42605>>, <<42624,42651>>, <<42786,42863>>, <<42865,42887>>, <<42891,42894>>, <<42896,42954>>, <<42960,42961>>, <<42963,42963>>,
     <<42965,42969>>, <<42997,42998>>, <<43002,43002>>, <<43824,43866>>, <<43872,43880>>, <<43888,43967>>, <<64256,64262>>, <<64275,64279>>,
     <<65313,65338>>, <<65345,65370>>, <<66560,66639>>, <<66736,66771>>, <<66776,66811>>, <<66928,66938>>, <<66940,66954>>, <<66956,66962>>,
     <<66964,66965>>, <<66967,66977>>, <<66979,66993>>, <<66995,67001>>, <<67003,67004>>, <<68736,68786>>, <<68800,68850>>, <<71840,71903>>,
     <<93760,93823>>, <<119808,119892>>, <<119894,119964>>, <<119966,119967>>, <<119970,119970>>, <<119973,119974>>, <<119977,119980>>, <<119982,119993>>,
     <<119995,119995>>, <<119997,120003>>, <<120005,120069>>, <<120071,120074>>, <<120077,120084>>, <<120086,120092>>, <<120094,120121>>, <<120123,120126>>,
     <<120128,120132>>, <<120134,120134>>, <<120138,120144>>, <<120146,120485>>, <<120488,120512>>, <<120514,120538>>, <<120540,120570>>, <<120572,120596>>,
     <<120598,120628>>, <<120630,120654>>, <<120656,120686>>, <<120688,120712>>, <<120714,120744>>, <<120746,120770>>, <<120772,120779>>, <<122624,122633>>,
     <<122635,122654>>, <<122661,122666>>, <<125184,125251>>, <<127280,127305>>, <<127312,127337>>, <<127344,127369>> >>

\* The code points with the property Case_Ignorable, as ranges <<first, last>>.
CaseIgnorableRanges ==
  << <<39,39>>, <<46,46>>, <<58,58>>, <<94,94>>, <<96,96>>, <<168,168>>, <<173,173>>, <<175,175>>,
     <<180,180>>, <<183,184>>, <<688,879>>, <<884,885>>, <<890,890>>, <<900,901>>, <<903,903>>, <<1155,1161>>,
     <<1369,1369>>, <<1375,1375>>, <<1425,1469>>, <<1471,1471>>, <<1473,1474>>, <<1476,1477>>, <<1479,1479>>, <<1524,1524>>,
     <<1536,1541>>, <<1552,1562>>, <<1564,1564>>, <<1600,1600>>, <<1611,1631>>, <<1648,1648>>, <<1750,1757>>, <<1759,1768>>,
     <<1770,1773>>, <<1807,1807>>, <<1809,1809>>, <<1840,1866>>, <<1958,1968>>, <<2027,2037>>, <<2042,2042>>, <<2045,2045>>,
     <<2070,2093>>, <<2137,2139>>, <<2184,2184>>, <<2192,2193>>, <<2200,2207>>, <<2249,2306>>, <<2362,2362>>, <<2364,2364>>,
     <<2369,2376>>, <<2381,2381>>, <<2385,2391>>, <<2402,2403>>, <<2417,2417>>, <<2433,2433>>, <<2492,2492>>, <<2497,2500>>,
     <<2509,2509>>, <<2530,2531>>, <<2558,2558>>, <<2561,2562>>, <<2620,2620>>, <<2625,2626>>, <<2631,2632>>, <<2635,2637>>,
     <<2641,2641>>, <<2672,2673>>, <<2677,2677>>, <<2689,2690>>, <<2748,2748>>, <<2753,2757>>, <<2759,2760>>, <<2765,2765>>,
     <<2786,2787>>, <<2810,2815>>, <<2817,2817>>, <<2876,2876>>, <<2879,2879>>, <<2881,2884>>, <<2893,2893>>, <<2901,2902>>,
     <<2914,2915>>, <<2946,2946>>, <<3008,3008>>, <<3021,3021>>, <<3072,3072>>, <<3076,3076>>, <<3132,3132>>, <<3134,3136>>,
     <<3142,3144>>, <<3146,3149>>, <<3157,3158>>, <<3170,3171>>, <<3201,3201>>, <<3260,3260>>, <<3263,3263>>, <<3270,3270>>,
     <<3276,3277>>, <<3298,3299>>, <<3328,3329>>, <<3387,3388>>, <<3393,3396>>, <<3405,3405>>, <<3426,3427>>, <<3457,3457>>,
     <<3530,3530>>, <<3538,3540>>, <<3542,3542>>, <<3633,3633>>, <<3636,3642>>, <<3654,3662>>, <<3761,3761>>, <<3764,3772>>,
     <<3782,3782>>, <<3784,3790>>, <<3864,3865>>, <<3893,3893>>, <<3895,3895>>, <<3897,3897>>, <<3953,3966>>, <<3968,3972>>,
     <<3974,3975>>, <<3981,3991>>, <<3993,4028>>, <<4038,4038>>, <<4141,4144>>, <<4146,4151>>, <<4153,4154>>, <<4157,4158>>,
     <<4184,4185>>, <<4190,4192>>, <<4209,4212>>, <<4226,4226>>, <<4229,4230>>, <<4237,4237>>, <<4253,4253>>, <<4348,4348>>,
     <<4957,4959>>, <<5906,5908>>, <<5938,5939>>, <<5970,5971>>, <<6002,6003>>, <<6068,6069>>, <<6071,6077>>, <<6086,6086>>,
     <<6089,6099>>, <<6103,6103>>, <<6109,6109>>, <<6155,6159>>, <<6211,6211>>, <<6277,6278>>, <<6313,6313>>, <<6432,6434>>,
     <<6439,6440>>, <<6450,6450>>, <<6457,6459>>, <<6679,6680>>, <<6683,6683>>, <<6742,6742>>, <<6744,6750>>, <<6752,6752>>,
     <<6754,6754>>, <<6757,6764>>, <<6771,6780>>, <<6783,6783>>, <<6823,6823>>, <<6832,6862>>, <<6912,6915>>, <<6964,6964>>,
     <<6966,6970>>, <<6972,6972>>, <<6978,6978>>, <<7019,7027>>, <<7040,7041>>, <<7074,7077>>, <<7080,7081>>, <<7083,7085>>,
     <<7142,7142>>, <<7144,7145>>, <<7149,7149>>, <<7151,7153>>, <<7212,7219>>, <<7222,7223>>, <<7288,7293>>, <<7376,7378>>,
     <<7380,7392>>, <<7394,7400>>, <<7405,7405>>, <<7412,7412>>, <<7416,7417>>, <<7468,7530>>, <<7544,7544>>, <<7579,7679>>,
     <<8125,8125>>, <<8127,8129>>, <<8141,8143>>, <<8157,8159>>, <<8173,8175>>, <<8189,8190>>, <<8203,8207>>, <<8216,8217>>,
     <<8228,8228>>, <<8231,8231>>, <<8234,8238>>, <<8288,8292>>, <<8294,8303>>, <<8305,8305>>, <<8319,8319>>, <<8336,8348>>,
     <<8400,8432>>, <<11388,11389>>, <<11503,11505>>, <<11631,11631>>, <<11647,11647>>, <<11744,11775>>, <<11823,11823>>, <<12293,12293>>,
     <<12330,12333>>, <<12337,12341>>, <<12347,12347>>, <<12441,12446>>, <<12540,12542>>, <<40981,40981>>, <<42232,42237>>, <<42508,42508>>,
     <<42607,42610>>, <<42612,42621>>, <<42623,42623>>, <<42652,42655>>, <<42736,42737>>, <<42752,42785>>, <<42864,42864>>, <<42888,42890>>,
     <<42994,42996>>, <<43000,43001>>, <<43010,43010>>, <<43014,43014>>, <<43019,43019>>, <<43045,43046>>, <<43052,43052>>, <<43204,43205>>,
     <<43232,43249>>, <<43263,43263>>, <<43302,43309>>, <<43335,43345>>, <<43392,43394>>, <<43443,43443>>, <<43446,43449>>, <<43452,43453>>,
     <<43471,43471>>, <<43493,43494>>, <<43561,43566>>, <<43569,43570>>, <<43573,43574>>, <<43587,43587>>, <<43596,43596>>, <<43632,43632>>,
     <<43644,43644>>, <<43696,43696>>, <<43698,43700>>, <<43703,43704>>, <<43710,43711>>, <<43713,43713>>, <<43741,43741>>, <<43756,43757>>,
     <<43763,43764>>, <<43766,43766>>, <<43867,43871>>, <<43881,43883>>, <<44005,44005>>, <<44008,44008>>, <<44013,44013>>, <<64286,64286>>,
     <<64434,64450>>, <<65024,65039>>, <<65043,65043>>, <<65056,65071>>, <<65106,65106>>, <<65109,65109>>, <<65279,65279>>, <<65287,65287>>,
     <<65294,65294>>, <<65306,65306>>, <<65342,65342>>, <<65344,65344>>, <<65392,65392>>, <<65438,65439>>, <<65507,65507>>, <<65529,65531>>,
     <<66045,66045>>, <<66272,66272>>, <<66422,66426>>, <<67456,67461>>, <<67463,67504>>, <<67506,67514>>, <<68097,68099>>, <<68101,68102>>,
     <<68108,68111>>, <<68152,68154>>, <<68159,68159>>, <<68325,68326>>, <<68900,68903>>, <<69291,69292>>, <<69373,69375>>, <<69446,69456>>,
     <<69506,69509>>, <<69633,69633>>, <<69688,69702>>, <<69744,69744>>, <<69747,69748>>, <<69759,69761>>, <<69811,69814>>, <<69817,69818>>,
     <<69821,69821>>, <<69826,69826>>, <<69837,69837>>, <<69888,69890>>, <<69927,69931>>, <<69933,69940>>, <<70003,70003>>, <<70016,70017>>,
     <<70070,70078>>, <<70089,70092>>, <<70095,70095>>, <<70191,70193>>, <<70196,70196>>, <<70198,70199>>, <<70206,70206>>, <<70209,70209>>,
     <<70367,70367>>, <<70371,70378>>, <<70400,70401>>, <<70459,70460>>, <<70464,70464>>, <<70502,70508>>, <<70512,70516>>, <<70712,70719>>,
     <<70722,70724>>, <<70726,70726>>, <<70750,70750>>, <<70835,70840>>, <<70842,70842>>, <<70847,70848>>, <<70850,70851>>, <<71090,71093>>,
     <<71100,71101>>, <<71103,71104>>, <<71132,71133>>, <<71219,71226>>, <<71229,71229>>, <<71231,71232>>, <<71339,71339>>, <<71341,71341>>,
     <<71344,71349>>, <<71351,71351>>, <<71453,71455>>, <<71458,71461>>, <<71463,71467>>, <<71727,71735>>, <<71737,71738>>, <<71995,71996>>,
     <<71998,71998>>, <<72003,72003>>, <<72148,72151>>, <<72154,72155>>, <<72160,72160>>, <<72193,72202>>, <<72243,72248>>, <<72251,72254>>,
     <<72263,72263>>, <<72273,72278>>, <<72281,72283>>, <<72330,72342>>, <<72344,72345>>, <<72752,72758>>, <<72760,72765>>, <<72767,72767>>,
     <<72850,72871>>, <<72874,72880>>, <<72882,72883>>, <<72885,72886>>, <<73009,73014>>, <<73018,73018>>, <<73020,73021>>, <<73023,73029>>,
     <<73031,73031>>, <<73104,73105>>, <<73109,73109>>, <<73111,73111>>, <<73459,73460>>, <<73472,73473>>, <<73526,73530>>, <<73536,73536>>,
     <<73538,73538>>, <<78896,78912>>, <<78919,78933>>, <<92912,92916>>, <<92976,92982>>, <<92992,92995>>, <<94031,94031>>, <<94095,94111>>,
     <<94176,94177>>, <<94179,94180>>, <<110576,110579>>, <<110581,110587>>, <<110589,110590>>, <<113821,113822>>, <<113824,113827>>, <<118528,118573>>,
     <<118576,118598>>, <<119143,119145>>, <<119155,119170>>, <<119173,119179>>, <<119210,119213>>, <<119362,119364>>, <<121344,121398>>, <<121403,121452>>,
     <<121461,121461>>, <<121476,121476>>, <<121499,121503>>, <<121505,121519>>, <<122880,122886>>, <<122888,122904>>, <<122907,122913>>, <<122915,122916>>,
     <<122918,122922>>, <<122928,122989>>, <<123023,123023>>, <<123184,123197>>, <<123566,123566>>, <<123628,123631>>, <<124139,124143>>, <<125136,125142>>,
     <<125252,125259>>, <<127995,127999>>, <<917505,917505>>, <<917536,917631>>, <<917760,917999>> >>

InRanges(c, ranges) ==
  \E k \in 1..Len(ranges) : c >= ranges[k][1] /\ c <= ranges[k][2]
CaseIgnorable(c) == InRanges(c, CaseIgnorableRanges)
Cased(c) == InRanges(c, CasedRanges)

\* The lower-case form of a code point on its own: the capital I with dot
\* above (U+0130) becomes two code points, every other code point has its
\* simple mapping.
LowerChar(c) ==
  LET by(rules) ==
        LET hits == {k \in 1..Len(rules) :
                       /\ c >= rules[k][1]
                       /\ c <= rules[k][2]
                       /\ (c - rules[k][1]) % rules[k][3] = 0}
        IN IF hits = {} THEN c
           ELSE c + rules[CHOOSE k \in hits : TRUE][4]
  IN IF c < 128 THEN <<IF c \in 65..90 THEN c + 32 ELSE c>>
     ELSE IF c = 304 THEN <<105, 775>>
     ELSE <<by(LowerRules)>>

\* The condition Final_Sigma of Unicode for the capital sigma at position i:
\* a cased letter comes before it and none after it, case-ignorable code
\* points apart.
FinalSigma(cps, i) ==
  LET cased(j) == Cased(cps[j])
      among(others) ==
        LET before == {j \in others : j < i}
            after  == {j \in others : j > i}
        IN /\ before # {}
           /\ cased(CHOOSE j \in before : \A m \in before : j >= m)
           /\ \/ after = {}
              \/ ~cased(CHOOSE j \in after : \A m \in after : j <= m)
  IN among({j \in (1..Len(cps)) \ {i} : ~CaseIgnorable(cps[j])})

\* The lower-case form of the code point at position i: the capital sigma
\* depends on its context, every other code point is lowered on its own.
LowerAt(cps, i) ==
  IF cps[i] = 931 THEN <<IF FinalSigma(cps, i) THEN 962 ELSE 963>>
  ELSE LowerChar(cps[i])

\* String.prototype.toLowerCase()
ToLowerCase(s) ==
  IF \A k \in 1..Len(s) : s[k] < 128
  THEN [k \in 1..Len(s) |-> LowerChar(s[k])[1]]
  ELSE LET cps == CodePoints(s)
       IN Utf16(Concat([i \in 1..Len(cps) |-> LowerAt(cps, i)]))

IsDigit(c) == c \in 48..57  \* "0" .. "9"

\* The number of units at the start of s that belong to the set cs.
LeadingIn(s, cs) ==
  LET out == {k \in 1..Len(s) : s[k] \notin cs}
  IN IF out = {} THEN Len(s)
     ELSE (CHOOSE k \in out : \A j \in out : k <= j) - 1

\* A natural number in decimal: the sequence of its digits 0..9, the most
\* significant first, without leading zero (<<0>> is zero).  The operators
\* below compute on numbers of any length.
Strip(ds) ==
  LET nz == {k \in 1..Len(ds) : ds[k] # 0}
  IN IF nz = {} THEN <<0>>
     ELSE SubSeq(ds, CHOOSE k \in nz : \A j \in nz : k <= j, Len(ds))

\* a < b
Less(a, b) ==
  \/ Len(a) < Len(b)
  \/ /\ Len(a) = Len(b)
     /\ \E k \in 1..Len(a) :
          a[k] < b[k] /\ \A j \in 1..(k - 1) : a[j] = b[j]

Pad(a, n) ==
  [k \in 1..n |-> IF k <= n - Len(a) THEN 0 ELSE a[k - (n - Len(a))]]

\* a + b: a carry enters place k when the first place after it whose sum is
\* not 9 has a sum of 10 or more.
Add(a, b) ==
  LET n == Max(Len(a), Len(b))
      s == [k \in 1..n |-> Pad(a, n)[k] + Pad(b, n)[k]]
      carry(k) ==
        /\ \E j \in (k + 1)..n : s[j] # 9
        /\ s[CHOOSE j \in (k + 1)..n :
               s[j] # 9 /\ \A m \in (k + 1)..(j - 1) : s[m] = 9] >= 10
  IN Strip(<<IF carry(0) THEN 1 ELSE 0>>
           \o [k \in 1..n |-> (s[k] + (IF carry(k) THEN 1 ELSE 0)) % 10])

\* a - b, for a >= b: place k lends when the first place after it where the
\* digits differ has the smaller digit in a.
Sub(a, b) ==
  LET n == Len(a)
      y == Pad(b, n)
      borrow(k) ==
        /\ \E j \in (k + 1)..n : a[j] # y[j]
        /\ LET j == CHOOSE i \in (k + 1)..n :
                       a[i] # y[i] /\ \A m \in (k + 1)..(i - 1) : a[m] = y[m]
           IN a[j] < y[j]
  IN Strip([k \in 1..n |->
              (10 + a[k] - y[k] - (IF borrow(k) THEN 1 ELSE 0)) % 10])

Odd(a) == a[Len(a)] % 2 = 1

\* a \div 2
Half(a) ==
  Strip([k \in 1..Len(a) |->
           ((IF k > 1 THEN a[k - 1] % 2 ELSE 0) * 10 + a[k]) \div 2])

\* 2 * a
Twice(a) ==
  LET d == [k \in 1..Len(a) |->
              (2 * a[k] + (IF k < Len(a) /\ a[k + 1] >= 5 THEN 1 ELSE 0)) % 10]
  IN (IF a[1] >= 5 THEN <<1>> ELSE <<>>) \o d

\* a * 2^e
RECURSIVE TimesPow2(_, _)
TimesPow2(a, e) ==
  IF e = 0 \/ a = <<0>> THEN a
  ELSE IF e = 1 THEN Twice(a)
  ELSE TimesPow2(TimesPow2(a, e \div 2), e - (e \div 2))

\* a \div 2^e
RECURSIVE DivPow2(_, _)
DivPow2(a, e) ==
  IF e = 0 \/ a = <<0>> THEN a
  ELSE IF e = 1 THEN Half(a)
  ELSE DivPow2(DivPow2(a, e \div 2), e - (e \div 2))

\* 10^n
Pow10(n) == <<1>> \o [k \in 1..n |-> 0]

\* The digits of a natural number of the model.
RECURSIVE NatDigits(_)
NatDigits(n) ==
  IF n < 10 THEN <<n>> ELSE NatDigits(n \div 10) \o <<n % 10>>

\* The text of a sequence of digits.
DecimalText(ds) == [k \in 1..Len(ds) |-> 48 + ds[k]]

\* 2^52 and 2^53: the significand m of a double is below 2^53, and at least
\* 2^52 unless its exponent is the smallest.
Two52 == <<4,5,0,3,5,9,9,6,2,7,3,7,0,4,9,6>>
Two53 == <<9,0,0,7,1,9,9,2,5,4,7,4,0,9,9,2>>

\* A Number whose value is an integer, an infinity or NaN: neg is the sign
\* (there is a negative zero) and digits the exact decimal value of the
\* magnitude, which is m * 2^e for a significand m and an exponent e of the
\* double format.
NaN == [kind |-> "NaN", neg |-> FALSE, digits |-> <<>>]
Infinite(neg) == [kind |-> "Infinity", neg |-> neg, digits |-> <<>>]
Finite(neg, ds) == [kind |-> "finite", neg |-> neg, digits |-> ds]
\* The Number of a natural number of the model.
Num(n) == Finite(FALSE, NatDigits(n))

\* The least e for which a \div 2^e is below 2^53.  A number of n digits
\* has between 3.3219 (n - 1) and 3.3220 n binary digits.
Exponent(a) ==
  IF Less(a, Two53) THEN 0
  ELSE CHOOSE e \in Max(1, (((Len(a) - 1) * 33219) \div 10000) - 54)
                     ..(((Len(a) * 33220) \div 10000) - 51) :
         /\ Less(a, TimesPow2(Two53, e))
         /\ ~Less(a, TimesPow2(Two52, e))

\* A significand and an exponent in normal form: a significand that the
\* rounding has brought to 2^53 is 2^52 with the next exponent.
Normal(m, e) ==
  IF m = Two53 THEN [m |-> Two52, e |-> e + 1] ELSE [m |-> m, e |-> e]

\* The double nearest to a, from m = a \div 2^e: the part of a below 2^e is
\* dropped when it is less than half of 2^e and rounded up when it is more,
\* and a tie goes to the even significand.  That is: m is rounded up when
\* twice that part, and one more for an odd m, exceeds 2^e.
NearestFrom(a, m, e) ==
  Normal(IF e > 0 /\ Less(TimesPow2(<<1>>, e),
                          Add(Twice(Sub(a, TimesPow2(m, e))),
                              IF Odd(m) THEN <<1>> ELSE <<0>>))
         THEN Add(m, <<1>>) ELSE m,
         e)

\* The double nearest to the natural number a, as m * 2^e.
Nearest(a) == NearestFrom(a, DivPow2(a, Exponent(a)), Exponent(a))

\* The Number of the double m * 2^e: an infinity beyond the largest double
\* (an exponent above 971).
FromDouble(neg, d) ==
  IF d.e > 971 THEN Infinite(neg) ELSE Finite(neg, TimesPow2(d.m, d.e))

\* The Number a text of decimal digits denotes: the nearest double, and an
\* infinity beyond the largest double (a number of 310 digits or more is
\* beyond it, as is one whose nearest double would need an exponent above
\* 971).
ToNumber(neg, a) ==
  IF Less(a, Two53) THEN Finite(neg, a)
  ELSE IF Len(a) > 309 THEN Infinite(neg)
  ELSE FromDouble(neg, Nearest(a))

\* White space parseInt skips at the start of its argument: the WhiteSpace
\* and LineTerminator code points of ECMAScript (tab, line feed, vertical
\* tab, form feed, carriage return, space, no-break space, U+1680,
\* U+2000..U+200A, U+2028, U+2029, U+202F, U+205F, U+3000, U+FEFF).
WhiteSpace ==
  {9, 10, 11, 12, 13, 32, 160, 5760, 8232, 8233, 8239, 8287, 12288, 65279}
  \cup 8192..8202

\* parseInt(s, 10): leading white space is skipped, one sign is accepted,
\* then the longest run of decimal digits is read; NaN when there is none.
ParseInt(s) ==
  LET t    == SubSeq(s, LeadingIn(s, WhiteSpace) + 1, Len(s))
      neg  == t # <<>> /\ t[1] = 45  \* "-"
      u    == IF t # <<>> /\ t[1] \in {43, 45} THEN SubSeq(t, 2, Len(t))  \* "+-"
              ELSE t
      n    == LeadingIn(u, 48..57)  \* "0" .. "9"
  IN IF n = 0 THEN NaN
     ELSE ToNumber(neg, Strip([k \in 1..n |-> u[k] - 48]))

\* The shortest digits that denote a double (of exponent 1 at least) and no
\* other.  v is the value, lo2 and hi2 are twice the numbers half way to
\* the doubles below and above it.  Cut(v, k) is v cut after k digits and
\* NextCut(v, k) the next number of k digits.
Cut(v, k) == [j \in 1..Len(v) |-> IF j <= k THEN v[j] ELSE 0]
NextCut(v, k) == Add(Cut(v, k), Pow10(Len(v) - k))

\* c rounds to the double: it lies between the two numbers half way; one of
\* these rounds to the double when its significand is even (odd is FALSE).
RoundsTo(c, lo2, hi2, odd) ==
  IF odd THEN Less(lo2, Twice(c)) /\ Less(Twice(c), hi2)
  ELSE ~Less(Twice(c), lo2) /\ ~Less(hi2, Twice(c))

\* k digits are enough.  (Cut grows and NextCut shrinks with k, so that k
\* digits are enough when k - 1 are.)
Fits(v, lo2, hi2, odd, k) ==
  \/ RoundsTo(Cut(v, k), lo2, hi2, odd)
  \/ RoundsTo(NextCut(v, k), lo2, hi2, odd)

\* Of t and u (t <= v < u) the one that rounds to the double; of the two
\* the closer one, and the even one when they are as close.
Pick(v, t, u, lo2, hi2, odd, even) ==
  IF ~RoundsTo(u, lo2, hi2, odd) THEN t
  ELSE IF ~RoundsTo(t, lo2, hi2, odd) THEN u
  ELSE IF Less(Twice(v), Add(t, u)) THEN t
  ELSE IF Less(Add(t, u), Twice(v)) THEN u
  ELSE IF even THEN t ELSE u

DigitsAt(v, lo2, hi2, odd, k) ==
  Pick(v, Cut(v, k), NextCut(v, k), lo2, hi2, odd, v[k] % 2 = 0)

\* The digits of the first k that is enough.
FirstFit(v, lo2, hi2, odd) ==
  DigitsAt(v, lo2, hi2, odd,
           CHOOSE k \in 1..Len(v) :
             /\ Fits(v, lo2, hi2, odd, k)
             /\ k > 1 => ~Fits(v, lo2, hi2, odd, k - 1))

\* above and below are the distances to the doubles above and below v.
Between(v, above, below, odd) ==
  FirstFit(v, Sub(Twice(v), below), Add(Twice(v), above), odd)

\* The shortest digits of the double d.m * 2^(d.e): the double above it is
\* 2^(d.e) away, and so is the one below it unless d.m is 2^52, the least
\* significand: then it is 2^(d.e - 1) away.
ShortestDigits(d) ==
  Between(TimesPow2(d.m, d.e), TimesPow2(<<1>>, d.e),
          IF d.m = Two52 THEN TimesPow2(<<1>>, d.e - 1)
          ELSE TimesPow2(<<1>>, d.e),
          Odd(d.m))

\* The text of a positive number given by its digits: the digits when there
\* are 21 at most, else the form "d.ddde+x".
Exponential(ds) ==
  LET sig == SubSeq(ds, 1, CHOOSE k \in 1..Len(ds) :
                             ds[k] # 0 /\ \A j \in (k + 1)..Len(ds) : ds[j] = 0)
  IN IF Len(ds) <= 21 THEN DecimalText(ds)
     ELSE <<48 + sig[1]>>
          \o (IF Len(sig) > 1
              THEN <<46>> \o DecimalText(Tail(sig))  \* "."
              ELSE <<>>)
          \o <<101, 43>> \o DecimalText(NatDigits(Len(ds) - 1))  \* "e+"

\* Number.prototype.toString(): the text of a Number.
NumberText(p) ==
  IF p.kind = "NaN" THEN <<78,97,78>>  \* "NaN"
  ELSE (IF p.neg /\ p.digits # <<0>> THEN <<45>> ELSE <<>>)  \* "-"
       \o (IF p.kind = "Infinity"
           THEN <<73,110,102,105,110,105,116,121>>  \* "Infinity"
           ELSE IF ~Less(Two53, p.digits) THEN DecimalText(p.digits)
           ELSE Exponential(ShortestDigits(Nearest(p.digits))))

\* Splits s at every occurrence of the unit ch.
RECURSIVE Split(_, _)
Split(s, ch) ==
  LET k == IndexOf(s, ch, 0)
  IN IF k = -1 THEN <<s>>
     ELSE <<SubSeq(s, 1, k)>> \o Split(SubstringFrom(s, k + 1), ch)

\* One dotted-quad part: 0..255 without leading zero.
IsV4Part(p) ==
  /\ Len(p) \in 1..3
  /\ \A k \in 1..Len(p) : IsDigit(p[k])
  /\ (Len(p) > 1 => p[1] # 48)  \* "0"
  /\ ~Less(<<2,5,5>>, [k \in 1..Len(p) |-> p[k] - 48])

IsIPv4(s) ==
  LET parts == Split(s, 46)  \* "."
  IN Len(parts) = 4 /\ \A k \in 1..4 : IsV4Part(parts[k])

HexLetters == {97,98,99,100,101,102,65,66,67,68,69,70}  \* "abcdefABCDEF"
IsV6Group(g) ==
  Len(g) \in 1..4 /\ \A k \in 1..Len(g) : IsDigit(g[k]) \/ g[k] \in HexLetters

V6Groups(s) == IF s = <<>> THEN <<>> ELSE Split(s, 58)  \* ":"

\* The position of the first "::" of s (0-based), or -1.
DoubleColon(s) ==
  LET hits == {k \in 0..(Len(s) - 2) : s[k + 1] = 58 /\ s[k + 2] = 58}  \* ":" ":"
  IN IF hits = {} THEN -1 ELSE CHOOSE k \in hits : \A j \in hits : k <= j

\* gs are groups of hexadecimal digits, between lo and hi of them.
V6GroupsOk(gs, lo, hi) ==
  Len(gs) \in lo..hi /\ \A k \in 1..Len(gs) : IsV6Group(gs[k])

\* n groups of hexadecimal digits separated by ':', or fewer around one
\* "::" (which stands for one group at least).
IsV6Body(s, n) ==
  IF DoubleColon(s) = -1 THEN V6GroupsOk(V6Groups(s), n, n)
  ELSE V6GroupsOk(V6Groups(Substring(s, 0, DoubleColon(s)))
                  \o V6Groups(SubstringFrom(s, DoubleColon(s) + 2)),
                  0, n - 1)

\* Characters of a zone id ("%eth0").
ZoneChars ==
  48..57 \cup 97..122 \cup 65..90 \cup {45, 46, 58}  \* digits, letters, "-.:"

\* An IPv6 address without zone id: eight groups, or six groups followed by
\* a dotted quad in the place of the last two.
IsV6Address(s) ==
  LET c     == LastIndexOf(s, 58)  \* ":"
      tail  == SubstringFrom(s, c + 1)
      head  == Substring(s, 0, c + 1)
      hl    == Len(head)
      quad  == c # -1 /\ IndexOf(tail, 46, 0) # -1  \* "."
  IN /\ quad => IsIPv4(tail)
     /\ IsV6Body(IF ~quad THEN s
                 ELSE IF hl >= 2 /\ head[hl - 1] = 58 THEN head  \* ":"
                 ELSE Substring(head, 0, hl - 1),
                 IF quad THEN 6 ELSE 8)

\* net.isIPv6(s): an IPv6 address, with an optional zone id after '%'.
IsIPv6(s) ==
  LET z == IndexOf(s, 37, 0)  \* "%"
  IN /\ IsV6Address(IF z = -1 THEN s ELSE Substring(s, 0, z))
     /\ z # -1 => /\ z + 1 < Len(s)
                  /\ \A k \in (z + 2)..Len(s) : s[k] \in ZoneChars

\* net.isIP(s) # 0
IsIP(s) == IsIPv4(s) \/ IsIPv6(s)

----------------------------------------------------------------------------
(* Program constants and the values the environment can produce.             *)

\* CF_FALLBACK_IPS (the PRIP environment variable, split at ','): here one
\* literal IP and one hostname, so that both branches of net.isIP are taken.
CF_FALLBACK_IPS == << <<57,46,57,46,57,46,57>>, <<102>> >>  \* "9.9.9.9" "f"

\* DOH_SERVERS, in their configured order.
DOH_SERVERS == <<"dns.google", "cloudflare-dns.com", "1.1.1.1">>

DNS_CACHE_TTL == 300000

\* Prefixes and notices of the control protocol.
CONNECT_PREFIX == <<67,79,78,78,69,67,84,58>>  \* "CONNECT:"
DATA_PREFIX    == <<68,65,84,65,58>>  \* "DATA:"
CLOSE_FRAME    == <<67,76,79,83,69>>  \* "CLOSE"
CONNECTED_FRAME == <<67,79,78,78,69,67,84,69,68>>  \* "CONNECTED"
ERROR_PREFIX   == <<69,82,82,79,82,58>>  \* "ERROR:"

\* Messages of the errors the runtime raises.
ECONNREFUSED == <<99,111,110,110,101,99,116,32,69,67,79,78,78,82,69,70,85,83,69,68>>  \* "connect ECONNREFUSED"
ETIMEDOUT == <<99,111,110,110,101,99,116,32,69,84,73,77,69,68,79,85,84>>  \* "connect ETIMEDOUT"
EHOSTUNREACH == <<99,111,110,110,101,99,116,32,69,72,79,83,84,85,78,82,69,65,67,72>>  \* "connect EHOSTUNREACH"
ENOTFOUND == <<103,101,116,97,100,100,114,105,110,102,111,32,69,78,79,84,70,79,85,78,68>>  \* "getaddrinfo ENOTFOUND"
ECONNRESET == <<114,101,97,100,32,69,67,79,78,78,82,69,83,69,84>>  \* "read ECONNRESET"
\* net.connect with a port outside 0..65535 (ERR_SOCKET_BAD_PORT), thrown
\* synchronously: "Port should be >= 0 and < 65536. Received type number
\* (65536)."
BAD_PORT == <<80,111,114,116,32,115,104,111,117,108,100,32,98,101,32,62,61,32,48,32,97,110,100,32,60,32,54,53,53,51,54>>  \* "Port should be >= 0 and < 65536"
BadPortMessage(port) ==
  BAD_PORT \o <<46,32,82,101,99,101,105,118,101,100,32,116,121,112,101,32,110,117,109,98,101,114,32,40>>  \* ". Received type number ("
           \o NumberText(port) \o <<41,46>>  \* ")."
\* TypeError of remoteSocket.write (line 448) or socket.on (line 370) while
\* the socket variable is null: the message names the property read.
NullDeref(property) ==
  <<67,97,110,110,111,116,32,114,101,97,100,32,112,114,111,112,101,114,116,105,101,115,32,111,102,32,110,117,108,108,32,40,114,101,97,100,105,110,103,32,39>>  \* "Cannot read properties of null (reading '"
  \o property \o <<39,41>>  \* "')"
\* ws.send on a stream that is not OPEN, in the versions of ws that throw:
\* "WebSocket is not open: readyState 2 (CLOSING)".
WsNotOpen(state) ==
  <<87,101,98,83,111,99,107,101,116,32,105,115,32,110,111,116,32,111,112,101,110,58,32,114,101,97,100,121,83,116,97,116,101,32>>  \* "WebSocket is not open: readyState "
  \o (IF state = "CLOSING" THEN <<50,32,40,67,76,79,83,73,78,71,41>>  \* "2 (CLOSING)"
      ELSE <<51,32,40,67,76,79,83,69,68,41>>)  \* "3 (CLOSED)"

\* throw new Error(`Failed to resolve ${hostname}`) of resolveDoH.
FailedToResolve(hostname) ==
  <<70,97,105,108,101,100,32,116,111,32,114,101,115,111,108,118,101,32>> \o hostname  \* "Failed to resolve "

\* Errors a TCP connection attempt can end with: a host dialed by name can
\* fail in the lookup of the system, and any socket in the connect (refused,
\* timed out, no route).
DialErrors == {ECONNREFUSED, ETIMEDOUT, EHOSTUNREACH, ENOTFOUND}
\* The address the lookup of the system gives for a host dialed by name
\* (localhost for the empty name).
SystemAddress(host) ==
  IF host = <<>> THEN <<49,50,55,46,48,46,48,46,49>>  \* "127.0.0.1"
  ELSE <<49,50,55,46,48,46,48,46,50>>  \* "127.0.0.2"
\* The errors a socket opened to host can end with: the lookup fails only
\* for a host dialed by name.
ErrorsOf(host) == {e \in DialErrors : e = ENOTFOUND => ~IsIP(host)}
\* The message of such an error.  A failed lookup names the host looked up
\* (localhost for the empty name): "getaddrinfo ENOTFOUND h".  A failed
\* connect names the address and the port, and leaves out a port of zero:
\* "connect ECONNREFUSED 9.9.9.9:8", "connect ECONNREFUSED 9.9.9.9".
ErrorMessage(e, host, port) ==
  IF e = ENOTFOUND
  THEN e \o <<32>>  \* " "
         \o (IF host = <<>> THEN <<108,111,99,97,108,104,111,115,116>>  \* "localhost"
             ELSE host)
  ELSE e \o <<32>> \o (IF IsIP(host) THEN host ELSE SystemAddress(host))  \* " "
         \o (IF port.digits = <<0>> THEN <<>>
             ELSE <<58>> \o NumberText(port))  \* ":"
\* Errors an established TCP socket can raise.
StreamErrors == {ECONNRESET}

\* The address a resolver backend answers with.
AnswerIPs == { <<53,46,53,46,53,46,53>> }  \* "5.5.5.5"

\* Inbound frames of the client: the bytes and whether the frame is binary.
TextFrame(d) == [binary |-> FALSE, data |-> d]
BinaryFrame(d) == [binary |-> TRUE, data |-> d]
\* CONNECT frames that are not well formed: no '|' separator, no port, a
\* port out of range.
MalformedFrames ==
  { TextFrame(CONNECT_PREFIX \o <<104,58,56>>),  \* "h:8"
    TextFrame(CONNECT_PREFIX \o <<49,46,49,46,49,46,49,124,120>>),  \* "1.1.1.1|x"
    TextFrame(CONNECT_PREFIX \o <<49,46,49,46,49,46,49,58,54,53,53,51,54,124,120>>) }  \* "1.1.1.1:65536|x"

\* Binary frames whose bytes spell a command.
CommandLikeFrames ==
  { BinaryFrame(CLOSE_FRAME), BinaryFrame(DATA_PREFIX \o <<121>>) }  \* "y"

InFrames ==
  { TextFrame(CONNECT_PREFIX \o <<104,58,56,124,120>>),  \* "h:8|x"
    TextFrame(CONNECT_PREFIX \o <<49,46,49,46,49,46,49,58,56,124>>),  \* "1.1.1.1:8|"
    TextFrame(CONNECT_PREFIX \o <<49,46,49,46,49,46,49,58,54,53,53,51,54,124,120>>),  \* "1.1.1.1:65536|x"
    TextFrame(DATA_PREFIX \o <<121>>),  \* "y"
    TextFrame(CLOSE_FRAME),
    TextFrame(<<122>>),  \* "z"
    BinaryFrame(<<122>>) }  \* "z"
  \cup CommandLikeFrames

\* The frames of a client that sends CONNECT frames that are not well formed.
InFramesMalformed ==
  MalformedFrames
  \cup { TextFrame(DATA_PREFIX \o <<121>>), TextFrame(CLOSE_FRAME),  \* "y"
         BinaryFrame(<<122>>) }  \* "z"

\* Bytes an established TCP peer sends.
PeerData == { <<114>> }  \* "r"

\* Bounds of the model.
MaxCalls == 2     \* invocations of connectToRemote
MaxSockets == 3   \* sockets opened by net.connect
MaxDials == 4     \* invocations of connectToRemote and sockets, together
MaxWrites == 2    \* writes accepted by the TCP sockets of the session
MaxToClient == 2  \* frames transmitted to the client before a data frame
MaxTicks == 3     \* steps of the clock
MaxSessionTicks == 1  \* steps of the clock during a session
MaxLookups == 2   \* invocations of resolveDoH made on their own

\* Steps of the clock (milliseconds).
TickSteps == {1, DNS_CACHE_TTL - 1}

----------------------------------------------------------------------------
VARIABLES
  isClosed,      \* handleSession: let isClosed
  remoteSocket,  \* handleSession: let remoteSocket (0 is null, else a socket id)
  readyState,    \* webSocket.readyState: "OPEN", "CLOSING" or "CLOSED"
  sockets,       \* every socket net.connect returned, by id (creation order)
  calls,         \* every invocation of connectToRemote, in order of start
  toClient,      \* frames transmitted to the client, in order
  closeCalls,    \* number of ws.close() calls of safeCloseWebSocket
  microtasks,    \* the calls whose await resumes in this turn, in order
  closeFrameReceived,  \* ws has received the close frame of the client
  dnsCache,      \* the Map dnsCache: hostname -> [ip, timestamp]
  now,           \* Date.now()
  nTicks,        \* steps of the clock so far
  lookups,       \* every invocation of resolveDoH made on its own, in order
  addrIn,        \* the argument of a parseAddress call made on its own
  parsed         \* what that call returned: <<>>, then <<its result>>

vars == <<isClosed, remoteSocket, readyState, sockets, calls, toClient,
          closeCalls, microtasks, closeFrameReceived, dnsCache, now, nTicks, lookups, addrIn, parsed>>

\* The session's own state, and what a session leaves alone.
session == <<isClosed, remoteSocket, readyState, sockets, calls, toClient,
             closeCalls, microtasks, closeFrameReceived>>
apart == <<nTicks, lookups, addrIn, parsed>>

\* The state the handlers of one turn read and write, as one record.
Cur == [isClosed |-> isClosed, remoteSocket |-> remoteSocket,
        readyState |-> readyState, sockets |-> sockets, calls |-> calls,
        toClient |-> toClient, closeCalls |-> closeCalls,
        microtasks |-> microtasks, closeFrameReceived |-> closeFrameReceived,
        dnsCache |-> dnsCache, now |-> now]

Commit(st) ==
  /\ isClosed' = st.isClosed
  /\ remoteSocket' = st.remoteSocket
  /\ readyState' = st.readyState
  /\ sockets' = st.sockets
  /\ calls' = st.calls
  /\ toClient' = st.toClient
  /\ closeCalls' = st.closeCalls
  /\ microtasks' = st.microtasks
  /\ closeFrameReceived' = st.closeFrameReceived
  /\ dnsCache' = st.dnsCache
  /\ now' = st.now

Init ==
  /\ isClosed = FALSE
  /\ remoteSocket = 0
  /\ readyState = "OPEN"
  /\ sockets = <<>>
  /\ calls = <<>>
  /\ toClient = <<>>
  /\ closeCalls = 0
  /\ microtasks = <<>>
  /\ closeFrameReceived = FALSE
  /\ dnsCache = <<>>
  /\ now = 0
  /\ nTicks = 0
  /\ lookups = <<>>
  /\ addrIn = <<>>
  /\ parsed = <<>>

----------------------------------------------------------------------------
(* Runtime primitives.                                                       *)

\* socket.destroy() called by the program: releases the socket; no 'error'
\* is emitted, so a promise awaiting its connect is never settled.
SocketDestroy(st, s) ==
  [st EXCEPT !.sockets[s].state = "destroyed",
             !.sockets[s].timedOut = FALSE,
             !.sockets[s].destroyCalls = @ + 1]

\* socket.write(data): accepted unless the socket is destroyed (bytes written
\* while connecting are flushed by Node on connect).
SocketWrite(st, s, data) ==
  IF st.sockets[s].state = "destroyed" THEN st
  ELSE [st EXCEPT !.sockets[s].written =
          Append(@, [data |-> data, closed |-> st.isClosed])]

\* webSocket.send(data): transmitted only while the stream is OPEN; a string
\* goes out as a text frame, a Buffer as a binary frame.
WsSend(st, data, binary) ==
  IF st.readyState = "OPEN"
  THEN [st EXCEPT !.toClient = Append(@, [data |-> data, binary |-> binary,
                                          closed |-> st.isClosed])]
  ELSE st

\* function safeCloseWebSocket(ws)
safeCloseWebSocket(st) ==
  IF st.readyState \in {"OPEN", "CLOSING"}
  THEN [st EXCEPT !.closeCalls = @ + 1, !.readyState = "CLOSING"]
  ELSE st

\* if (remoteSocket) { remoteSocket.destroy(); remoteSocket = null; }
ReleaseRemote(st) ==
  IF st.remoteSocket # 0
  THEN [SocketDestroy(st, st.remoteSocket) EXCEPT !.remoteSocket = 0]
  ELSE st

\* cleanup without its isClosed guard: every trigger tears down again.
cleanup_NoGuard(st) ==
  safeCloseWebSocket(ReleaseRemote([st EXCEPT !.isClosed = TRUE]))

\* const cleanup = () => {...}
cleanup(st) ==
  IF st.isClosed THEN st
  ELSE safeCloseWebSocket(ReleaseRemote([st EXCEPT !.isClosed = TRUE]))

\* const pumpRemoteToWebSocket = (socket) => {...}: registers one more set of
\* data/end/error listeners on the socket.
pumpRemoteToWebSocket(st, s) == [st EXCEPT !.sockets[s].pumps = @ + 1]

\* parseAddress cutting at the first colon instead of the last.
parseAddress_FirstColon(addr) ==
  IF Len(addr) > 0 /\ addr[1] = 91  \* "["
  THEN LET end == IndexOf(addr, 93, 0)  \* "]"
       IN [host |-> Substring(addr, 1, end),
           port |-> ParseInt(SubstringFrom(addr, end + 2))]
  ELSE LET sep == IndexOf(addr, 58, 0)  \* ":"
       IN [host |-> Substring(addr, 0, sep),
           port |-> ParseInt(SubstringFrom(addr, sep + 1))]

\* const parseAddress = (addr) => {...}
parseAddress(addr) ==
  IF Len(addr) > 0 /\ addr[1] = 91  \* "["
  THEN LET end == IndexOf(addr, 93, 0)  \* "]"
       IN [host |-> Substring(addr, 1, end),
           port |-> ParseInt(SubstringFrom(addr, end + 2))]
  ELSE LET sep == LastIndexOf(addr, 58)  \* ":"
       IN [host |-> Substring(addr, 0, sep),
           port |-> ParseInt(SubstringFrom(addr, sep + 1))]

\* Every error classified as retryable.
isCFError_Any(msg) == TRUE

\* const isCFError = (err) => {...}: m is err.message.toLowerCase().
isCFError(msg) ==
  \E m \in {ToLowerCase(msg)} :
    \/ Includes(m, <<112,114,111,120,121,32,114,101,113,117,101,115,116>>)  \* "proxy request"
    \/ Includes(m, <<99,97,110,110,111,116,32,99,111,110,110,101,99,116>>)  \* "cannot connect"
    \/ Includes(m, <<101,99,111,110,110,114,101,102,117,115,101,100>>)  \* "econnrefused"
    \/ Includes(m, <<101,116,105,109,101,100,111,117,116>>)  \* "etimedout"

\* net.connect accepts a port in 0..65535 and throws on any other.
LegalPort(p) ==
  /\ p.kind = "finite"
  /\ ~p.neg \/ p.digits = <<0>>
  /\ ~Less(<<6,5,5,3,5>>, p.digits)

----------------------------------------------------------------------------
(* connectToRemote: the dial strategy.  A call record holds the locals of   *)
(* one invocation and the await it is suspended at:                         *)
(*   "doh"        resolveDoH awaits queryDoH(DOH_SERVERS[backend])          *)
(*   "sysdns"     resolveDoH awaits dns.resolve4                            *)
(*   "connecting" connectToRemote awaits 'connect' or 'error' of its socket *)
(*   "thrown"     connectToRemote threw (err is the message): the await of  *)
(*                line 479 resumes in the catch block, in a microtask       *)
(*   "done"       returned;  "failed"  the catch block of the handler ran   *)
(* unresolved holds the candidates (i) for which resolveDoH threw.          *)

\* const attempts = [null, ...CF_FALLBACK_IPS]
attempts == <<<<>>>> \o CF_FALLBACK_IPS

\* The fallback entry forgotten: every attempt dials the requested host.
TargetHost_HostOnly(c, i) == c.host

\* const targetHost = attempts[i] || host  (i is 0-based, as in the source)
TargetHost(c, i) == IF attempts[i + 1] = <<>> THEN c.host ELSE attempts[i + 1]

\* dnsCache.set(hostname, { ip, timestamp: Date.now() })
CacheSet(st, hostname, ip) ==
  [st EXCEPT !.dnsCache =
     [h \in DOMAIN st.dnsCache \cup {hostname} |->
        IF h = hostname THEN [ip |-> ip, timestamp |-> st.now]
        ELSE st.dnsCache[h]]]

\* The cache test without the age of the entry.
CacheFresh_NoTTL(st, hostname) == hostname \in DOMAIN st.dnsCache

\* cached && Date.now() - cached.timestamp < DNS_CACHE_TTL
CacheFresh(st, hostname) ==
  /\ hostname \in DOMAIN st.dnsCache
  /\ st.now - st.dnsCache[hostname].timestamp < DNS_CACHE_TTL

\* The catch block of the message handler: the ERROR notice, then cleanup.
HandlerCatch(st, k, err) ==
  cleanup(WsSend([st EXCEPT !.calls[k].pc = "failed", !.calls[k].err = err],
                 ERROR_PREFIX \o err, FALSE))

RECURSIVE Attempt(_, _, _)
RECURSIVE DialCatch(_, _, _, _)

\* throw err out of connectToRemote: its promise is rejected, and the
\* handler that awaits it (line 479) goes on in a microtask.
Rethrow(st, k, err) ==
  [st EXCEPT !.calls[k].pc = "thrown", !.calls[k].err = err,
             !.microtasks = Append(@, k)]

\* The catch block of connectToRemote for candidate i: releases whatever
\* remoteSocket holds, then rethrows or goes on with candidate i + 1.
DialCatch(st, k, i, err) ==
  LET st1 == ReleaseRemote(st)
  IN IF ~isCFError(err) \/ i = Len(attempts) - 1
     THEN Rethrow(st1, k, err)
     ELSE Attempt(st1, k, i + 1)

\* remoteSocket = net.connect({host: resolvedHost, port, timeout: 10000}) and
\* the await of its 'connect' or 'error'.
NetConnect(st, k, i, targetHost, resolvedHost) ==
  IF ~LegalPort(st.calls[k].port)
  THEN DialCatch(st, k, i, BadPortMessage(st.calls[k].port))
  ELSE LET s == Len(st.sockets) + 1
       IN [st EXCEPT
             !.sockets = Append(@, [owner |-> k, cand |-> i,
                                    target |-> targetHost,
                                    host |-> resolvedHost,
                                    port |-> st.calls[k].port,
                                    state |-> "connecting",
                                    pumps |-> 0, written |-> <<>>,
                                    destroyCalls |-> 0, timedOut |-> FALSE,
                                    established |-> FALSE,
                                    openedClosed |-> st.isClosed,
                                    outcome |-> <<>>]),
             !.remoteSocket = s,
             !.calls[k].pc = "connecting",
             !.calls[k].i = i,
             !.calls[k].sock = s]

\* catch (err) of lines 429-432: resolveDoH threw, resolvedHost is still
\* targetHost and the loop goes on to net.connect.
ResolveFailed(st, k) ==
  LET c == st.calls[k]
      t == TargetHost(c, c.i)
  IN NetConnect([st EXCEPT !.calls[k].unresolved = @ \cup {c.i}],
                k, c.i, t, t)

\* One iteration of the for loop up to its first await: a literal IP goes
\* straight to net.connect; any other host is awaited from resolveDoH, which
\* returns a fresh cache entry at once (the await still yields) or suspends
\* at the first DoH backend.
Attempt(st, k, i) ==
  LET targetHost == TargetHost(st.calls[k], i)
  IN IF IsIP(targetHost)
     THEN NetConnect(st, k, i, targetHost, targetHost)
     ELSE IF CacheFresh(st, targetHost)
     THEN [st EXCEPT !.calls[k].pc = "cached", !.calls[k].i = i,
                     !.microtasks = Append(@, k)]
     ELSE [st EXCEPT !.calls[k].pc = "doh", !.calls[k].i = i,
                     !.calls[k].backend = 1]

\* The await of a cached resolveDoH resumes for call k: net.connect to the
\* address of the entry.
ResumeCached(st, k) ==
  LET c == st.calls[k]
      t == TargetHost(c, c.i)
  IN NetConnect(st, k, c.i, t, st.dnsCache[t].ip)

\* The microtasks of a turn run to completion in the order they were
\* queued: the continuation of a cached resolution, or the catch block of the
\* handler whose connectToRemote threw.
RECURSIVE Settle(_)
Settle(st) ==
  IF st.microtasks = <<>> THEN st
  ELSE LET k   == Head(st.microtasks)
           st1 == [st EXCEPT !.microtasks = Tail(@)]
       IN Settle(IF st1.calls[k].pc = "cached"
                 THEN ResumeCached(st1, k)
                 ELSE HandlerCatch(st1, k, st1.calls[k].err))

\* const connectToRemote = async (targetAddr, firstFrameData) => {...}, up to
\* its first await.
connectToRemote(st, targetAddr, firstFrameData) ==
  LET a == parseAddress(targetAddr)
      k == Len(st.calls) + 1
      st1 == [st EXCEPT !.calls = Append(@, [pc |-> "start", host |-> a.host,
                                            port |-> a.port,
                                            first |-> firstFrameData,
                                            i |-> 0, backend |-> 0,
                                            sock |-> 0, err |-> <<>>,
                                            unresolved |-> {}])]
  IN Attempt(st1, k, 0)

\* The rest of the try block once the awaited 'connect' has fired:
\* the first payload, CONNECTED, the pump, return.  sendThrows: whether
\* ws.send throws on a stream that is not OPEN (it does in old versions of ws
\* and silently discards in newer ones).
AfterConnect(st, k, sendThrows) ==
  LET c == st.calls[k]
      nofirst == c.first = <<>>
  IN IF ~nofirst /\ st.remoteSocket = 0
     THEN DialCatch(st, k, c.i, NullDeref(<<119,114,105,116,101>>))  \* "write"
     ELSE LET st1 == IF nofirst THEN st
                     ELSE SocketWrite(st, st.remoteSocket, c.first)
          IN IF st1.readyState # "OPEN" /\ sendThrows
             THEN DialCatch(st1, k, c.i, WsNotOpen(st1.readyState))
             ELSE LET st2 == WsSend(st1, CONNECTED_FRAME, FALSE)
                  IN IF st2.remoteSocket = 0
                     THEN DialCatch(st2, k, c.i, NullDeref(<<111,110>>))  \* "on"
                     ELSE [pumpRemoteToWebSocket(st2, st2.remoteSocket)
                             EXCEPT !.calls[k].pc = "done"]

----------------------------------------------------------------------------
(* The events of the session.  Each action is one turn of the event loop:   *)
(* a handler runs from its event to its next await on I/O.                  *)

\* webSocket.on('message', async (data) => {...}), up to its first await.
\* asBuffer: data instanceof Buffer.
OnMessage(st, frame, asBuffer) ==
  IF st.isClosed THEN st
  ELSE LET message == frame.data
       IN IF StartsWith(message, CONNECT_PREFIX)
          THEN LET sep == IndexOf(message, 124, 8)  \* "|"
               IN connectToRemote(st, Substring(message, 8, sep),
                                  SubstringFrom(message, sep + 1))
          ELSE IF StartsWith(message, DATA_PREFIX)
          THEN IF st.remoteSocket # 0
                  /\ st.sockets[st.remoteSocket].state # "destroyed"
               THEN SocketWrite(st, st.remoteSocket, SubstringFrom(message, 5))
               ELSE st
          ELSE IF message = CLOSE_FRAME
          THEN cleanup(st)
          ELSE IF asBuffer /\ st.remoteSocket # 0
                  /\ st.sockets[st.remoteSocket].state # "destroyed"
          THEN SocketWrite(st, st.remoteSocket, frame.data)
          ELSE st

IsConnect(frame) == StartsWith(frame.data, CONNECT_PREFIX)

\* No continuation is waiting in the microtask queue: the turn is over and
\* the next event of the loop can be taken.
Ready == microtasks = <<>>

\* data instanceof Buffer: a binary frame is a Buffer; a text frame is a
\* Buffer with ws 8 and a string with the versions before it.
BufferKinds(frame) == IF frame.binary THEN {TRUE} ELSE BOOLEAN

\* The number of writes the sockets of the session have accepted so far.
RECURSIVE SumWritten(_)
SumWritten(n) == IF n = 0 THEN 0 ELSE Len(sockets[n].written) + SumWritten(n - 1)
Written == SumWritten(Len(sockets))

\* Bounds the sockets of a behaviour: a turn that opens a socket is taken
\* only while another socket is allowed.
Bounded(st) ==
  /\ Len(st.sockets) <= MaxSockets
  /\ Len(st.sockets) + Len(st.calls) <= MaxDials
  /\ Commit(st)

\* A frame of the client arrives.  ws emits the frames of one segment one
\* after the other in the same turn, so a frame can arrive before the
\* microtasks of the frame before it have run.
Message(frame) ==
  /\ readyState # "CLOSED" /\ ~closeFrameReceived
  /\ (IsConnect(frame) /\ ~isClosed) => Len(calls) < MaxCalls
  /\ (~IsConnect(frame) /\ frame.data # CLOSE_FRAME) => Written < MaxWrites
  /\ \E asBuffer \in BufferKinds(frame) :
       Bounded(OnMessage(Cur, frame, asBuffer))
  /\ UNCHANGED apart

\* queryDoH(DOH_SERVERS[backend], host) settles for call k: with an address
\* (cached, returned, dialed) or with a rejection (next backend, then the
\* system resolver).
DohAnswer(k, ip) ==
  /\ Ready
  /\ k \in 1..Len(calls) /\ calls[k].pc = "doh"
  /\ LET c == calls[k]
         t == TargetHost(c, c.i)
     IN Bounded(Settle(NetConnect(CacheSet(Cur, t, ip), k, c.i, t, ip)))
  /\ UNCHANGED apart

DohFail(k) ==
  /\ Ready
  /\ k \in 1..Len(calls) /\ calls[k].pc = "doh"
  /\ calls' = IF calls[k].backend < Len(DOH_SERVERS)
              THEN [calls EXCEPT ![k].backend = @ + 1]
              ELSE [calls EXCEPT ![k].pc = "sysdns"]
  /\ UNCHANGED <<isClosed, remoteSocket, readyState, sockets, toClient,
                 closeCalls, microtasks, closeFrameReceived, dnsCache, now, apart>>

\* dns.resolve4(host) settles for call k: with an address, or with a failure,
\* after which resolveDoH throws and connectToRemote dials the host as given.
SysDnsAnswer(k, ip) ==
  /\ Ready
  /\ k \in 1..Len(calls) /\ calls[k].pc = "sysdns"
  /\ LET c == calls[k]
         t == TargetHost(c, c.i)
     IN Bounded(Settle(NetConnect(CacheSet(Cur, t, ip), k, c.i, t, ip)))
  /\ UNCHANGED apart

SysDnsFail(k) ==
  /\ Ready
  /\ k \in 1..Len(calls) /\ calls[k].pc = "sysdns"
  /\ Bounded(Settle(ResolveFailed(Cur, k)))
  /\ UNCHANGED apart

\* The turn of the frames is over: the awaits of the cached resolutions
\* resume.
Microtasks ==
  /\ ~Ready
  /\ Bounded(Settle(Cur))
  /\ UNCHANGED apart

\* socket.on('error') of the pumps: cleanup once per pump registered on the
\* socket.
RECURSIVE ErrorListeners(_, _)
ErrorListeners(n, st) ==
  IF n = 0 THEN st ELSE ErrorListeners(n - 1, cleanup(st))

\* A socket is awaited by the call that opened it until it connects, fails
\* or is destroyed.
Awaited(s) ==
  /\ s \in 1..Len(sockets)
  /\ sockets[s].state = "connecting"
  /\ calls[sockets[s].owner].pc = "connecting"
  /\ calls[sockets[s].owner].sock = s

\* 'connect' of socket s: the promise resolves and connectToRemote goes on.
SocketConnect(s, sendThrows) ==
  /\ Ready /\ Awaited(s)
  /\ sendThrows => readyState # "OPEN"
  /\ Commit(Settle(AfterConnect([Cur EXCEPT !.sockets[s].state = "connected",
                                              !.sockets[s].established = TRUE,
                                              !.sockets[s].timedOut = FALSE],
                                sockets[s].owner, sendThrows)))
  /\ UNCHANGED apart

\* 'error' of socket s before it connected: Node has destroyed the socket;
\* the listeners run in the order of their registration (the promise's
\* reject, then the error listener of every pump another invocation has
\* registered on it), and then the catch block of connectToRemote.
SocketConnectError(s, e) ==
  /\ Ready /\ Awaited(s)
  /\ e \in ErrorsOf(sockets[s].host)
  /\ LET err == ErrorMessage(e, sockets[s].host, sockets[s].port)
         st0 == [Cur EXCEPT !.sockets[s].state = "destroyed",
                            !.sockets[s].timedOut = FALSE,
                            !.sockets[s].outcome = err]
     IN Bounded(Settle(DialCatch(ErrorListeners(sockets[s].pumps, st0),
                                 sockets[s].owner, sockets[s].cand, err)))
  /\ UNCHANGED apart

\* 'timeout' of socket s (the timeout: 10000 option) while it is connecting:
\* the event has no listener, so nothing runs.
SocketTimeout(s) ==
  /\ Ready
  /\ s \in 1..Len(sockets)
  /\ sockets[s].state = "connecting" /\ ~sockets[s].timedOut
  /\ sockets' = [sockets EXCEPT ![s].timedOut = TRUE]
  /\ UNCHANGED <<isClosed, remoteSocket, readyState, calls, toClient,
                 closeCalls, microtasks, closeFrameReceived, dnsCache, now, apart>>

\* socket.on('data') of one pump: forwards while the session is open.
OnData(st, data) ==
  IF ~st.isClosed /\ st.readyState = "OPEN" THEN WsSend(st, data, TRUE) ELSE st

\* socket.on('end') of one pump.
OnEnd(st) ==
  IF ~st.isClosed THEN cleanup(WsSend(st, CLOSE_FRAME, FALSE)) ELSE st

\* The data and end listeners, once per pump registered on the socket.
RECURSIVE DataListeners(_, _, _)
DataListeners(n, st, data) ==
  IF n = 0 THEN st ELSE DataListeners(n - 1, OnData(st, data), data)

RECURSIVE EndListeners(_, _)
EndListeners(n, st) ==
  IF n = 0 THEN st ELSE EndListeners(n - 1, OnEnd(st))

\* 'data' of an established socket s.
SocketData(s, data) ==
  /\ Ready /\ Len(toClient) < MaxToClient
  /\ s \in 1..Len(sockets)
  /\ sockets[s].state = "connected" /\ sockets[s].pumps > 0
  /\ Commit(DataListeners(sockets[s].pumps, Cur, data))
  /\ UNCHANGED apart

\* 'end' of an established socket s: the listeners of its pumps run, if it
\* has any, then Node (the socket does not allow half-open) ends and
\* releases the socket itself.
SocketEnd(s) ==
  /\ Ready
  /\ s \in 1..Len(sockets)
  /\ sockets[s].state = "connected"
  /\ LET st == EndListeners(sockets[s].pumps, Cur)
     IN Commit([st EXCEPT !.sockets[s].state = "destroyed"])
  /\ UNCHANGED apart

\* 'error' of an established socket s: Node has destroyed it.  The
\* once('error', reject) listener of the dial is still registered and takes
\* the event (its promise is settled, so nothing follows); then each pump's
\* listener runs cleanup.
SocketError(s, err) ==
  /\ Ready
  /\ s \in 1..Len(sockets)
  /\ sockets[s].state = "connected"
  /\ Commit(ErrorListeners(sockets[s].pumps,
                           [Cur EXCEPT !.sockets[s].state = "destroyed"]))
  /\ UNCHANGED apart

\* The close frame of the client arrives: ws answers it (readyState is
\* CLOSING from then on) and reads no further frame; the program is told
\* nothing until the stream has ended.
WsClosing ==
  /\ readyState # "CLOSED" /\ ~closeFrameReceived
  /\ Commit([Cur EXCEPT !.closeFrameReceived = TRUE,
                         !.readyState = "CLOSING"])
  /\ UNCHANGED apart

\* webSocket.on('close', cleanup): the client stream has ended.
WsClose ==
  /\ Ready /\ readyState # "CLOSED"
  /\ Commit(cleanup([Cur EXCEPT !.readyState = "CLOSED"]))
  /\ UNCHANGED apart

\* webSocket.on('error', cleanup): ws moves the stream to CLOSING before it
\* emits 'error'.  An invalid frame raises it in the turn of the frames that
\* came in the same segment, before their continuations run.
WsError ==
  /\ readyState # "CLOSED"
  /\ Commit(cleanup([Cur EXCEPT !.readyState = "CLOSING"]))
  /\ UNCHANGED apart

\* Time passes during a session: long enough for every entry of the cache
\* to expire.
SessionTick ==
  /\ Ready /\ nTicks < MaxSessionTicks
  /\ dnsCache # <<>>
  /\ now' = now + DNS_CACHE_TTL
  /\ nTicks' = nTicks + 1
  /\ UNCHANGED <<session, dnsCache, lookups, addrIn, parsed>>

\* Time passes.
Tick(d) ==
  /\ nTicks < MaxTicks
  /\ dnsCache # <<>>
  /\ now' = now + d
  /\ nTicks' = nTicks + 1
  /\ UNCHANGED <<session, dnsCache, lookups, addrIn, parsed>>

Next ==
  \/ \E f \in InFrames : Message(f)
  \/ \E k \in 1..MaxCalls, ip \in AnswerIPs : DohAnswer(k, ip)
  \/ \E k \in 1..MaxCalls : DohFail(k)
  \/ \E k \in 1..MaxCalls, ip \in AnswerIPs : SysDnsAnswer(k, ip)
  \/ \E k \in 1..MaxCalls : SysDnsFail(k)
  \/ \E s \in 1..Len(sockets), t \in BOOLEAN : SocketConnect(s, t)
  \/ \E s \in 1..Len(sockets), e \in DialErrors : SocketConnectError(s, e)
  \/ \E s \in 1..Len(sockets) : SocketTimeout(s)
  \/ \E s \in 1..Len(sockets), d \in PeerData : SocketData(s, d)
  \/ \E s \in 1..Len(sockets) : SocketEnd(s)
  \/ \E s \in 1..Len(sockets), e \in StreamErrors : SocketError(s, e)
  \/ WsClosing
  \/ WsClose
  \/ WsError
  \/ Microtasks
  \/ SessionTick

Spec == Init /\ [][Next]_vars

\* The same session with a client whose CONNECT frames are not well formed.
NextMalformed ==
  \/ \E f \in InFramesMalformed : Message(f)
  \/ \E k \in 1..MaxCalls, ip \in AnswerIPs : DohAnswer(k, ip)
  \/ \E k \in 1..MaxCalls : DohFail(k)
  \/ \E k \in 1..MaxCalls, ip \in AnswerIPs : SysDnsAnswer(k, ip)
  \/ \E k \in 1..MaxCalls : SysDnsFail(k)
  \/ \E s \in 1..Len(sockets), t \in BOOLEAN : SocketConnect(s, t)
  \/ \E s \in 1..Len(sockets), e \in DialErrors : SocketConnectError(s, e)
  \/ \E s \in 1..Len(sockets) : SocketTimeout(s)
  \/ \E s \in 1..Len(sockets), d \in PeerData : SocketData(s, d)
  \/ \E s \in 1..Len(sockets) : SocketEnd(s)
  \/ \E s \in 1..Len(sockets), e \in StreamErrors : SocketError(s, e)
  \/ WsClosing
  \/ WsClose
  \/ WsError
  \/ Microtasks
  \/ SessionTick

SpecMalformed == Init /\ [][NextMalformed]_vars

----------------------------------------------------------------------------
(* resolveDoH on its own: the resolver and its cache are shared by every     *)
(* session, so its invocations are interleaved here with each other and     *)
(* with the clock.  A lookup record holds the locals of one invocation, the *)
(* await it is suspended at ("doh": queryDoH of DOH_SERVERS[backend],        *)
(* "sysdns": dns.resolve4; "returned", "failed" once it is over), the time  *)
(* it read the cache at, and what it has called so far: the DoH servers     *)
(* queried, the reply of each, and whether dns.resolve4 was called.         *)

\* Hostnames resolveDoH is called with: two names and three literal IPs.
Hostnames == { <<104>>, <<102>>, <<49,46,49,46,49,46,49>>,  \* "h" "f" "1.1.1.1"
               <<58,58,49>>, <<58,58,102,102,102,102,58,49,46,50,46,51,46,52>> }  \* "::1" "::ffff:1.2.3.4"

\* What queryDoH resolves with (answer.data of the first A record; the server
\* decides, and it may be empty) and what dns.resolve4 resolves with.
OtherIP == <<54,46,54,46,54,46,54>>  \* "6.6.6.6"
DohData == AnswerIPs \cup {OtherIP, <<>>}
SysAddresses == {<<>>} \cup {<<ip>> : ip \in AnswerIPs}
                \cup {<<OtherIP, ip>> : ip \in AnswerIPs}

\* The state resolveDoH reads and writes, as one record.
Res == [dnsCache |-> dnsCache, now |-> now, lookups |-> lookups]

CommitRes(st) ==
  /\ dnsCache' = st.dnsCache
  /\ now' = st.now
  /\ lookups' = st.lookups
  /\ UNCHANGED <<session, nTicks, addrIn, parsed>>

\* resolveDoH without its net.isIP test: a literal IP is looked up as a name.
resolveDoH_NoLiteralTest(st, hostname) ==
  LET l == [hostname |-> hostname, at |-> st.now, pc |-> "returned",
            backend |-> 0, queried |-> <<>>, replies |-> <<>>, sys |-> FALSE,
            result |-> <<>>, err |-> <<>>]
  IN IF CacheFresh(st, hostname)
     THEN [st EXCEPT !.lookups =
             Append(@, [l EXCEPT !.result = st.dnsCache[hostname].ip])]
     ELSE [st EXCEPT !.lookups =
             Append(@, [l EXCEPT !.pc = "doh", !.backend = 1,
                                 !.queried = <<DOH_SERVERS[1]>>])]

\* async function resolveDoH(hostname), up to its first await: the cache,
\* then the literal IP, then the query of the first DoH server.
resolveDoH(st, hostname) ==
  LET l == [hostname |-> hostname, at |-> st.now, pc |-> "returned",
            backend |-> 0, queried |-> <<>>, replies |-> <<>>, sys |-> FALSE,
            result |-> <<>>, err |-> <<>>]
  IN IF CacheFresh(st, hostname)
     THEN [st EXCEPT !.lookups =
             Append(@, [l EXCEPT !.result = st.dnsCache[hostname].ip])]
     ELSE IF IsIP(hostname)
     THEN [st EXCEPT !.lookups = Append(@, [l EXCEPT !.result = hostname])]
     ELSE [st EXCEPT !.lookups =
             Append(@, [l EXCEPT !.pc = "doh", !.backend = 1,
                                 !.queried = <<DOH_SERVERS[1]>>])]

\* The for loop left at the first server that gave no address.
NextBackend_ToSystem(st, l) ==
  [st EXCEPT !.lookups[l].pc = "sysdns", !.lookups[l].backend = 0,
             !.lookups[l].sys = TRUE]

\* The for loop of resolveDoH goes on after a server gave no address: the
\* next DoH server, and after the last one dns.resolve4.
NextBackend(st, l) ==
  LET b == st.lookups[l].backend
  IN IF b < Len(DOH_SERVERS)
     THEN [st EXCEPT !.lookups[l].backend = b + 1,
                     !.lookups[l].queried = Append(@, DOH_SERVERS[b + 1])]
     ELSE [st EXCEPT !.lookups[l].pc = "sysdns", !.lookups[l].backend = 0,
                     !.lookups[l].sys = TRUE]

\* dnsCache.set that keeps no other entry.
CacheStore_Alone(st, l, ip) ==
  [st EXCEPT !.dnsCache = [h \in {st.lookups[l].hostname} |->
                             [ip |-> ip, timestamp |-> st.now]],
             !.lookups[l].pc = "returned", !.lookups[l].result = ip]

\* dnsCache.set(hostname, { ip, timestamp: Date.now() }); return ip;
CacheStore(st, l, ip) ==
  [CacheSet(st, st.lookups[l].hostname, ip)
     EXCEPT !.lookups[l].pc = "returned", !.lookups[l].result = ip]

\* A call of resolveDoH(hostname) starts.
LookupStart(hostname) ==
  /\ Len(lookups) < MaxLookups
  /\ CommitRes(resolveDoH(Res, hostname))

\* queryDoH resolves with data: a non-empty address is cached and returned,
\* an empty one is passed over (if (ip)).
LookupDohAnswer(l, data) ==
  /\ l \in 1..Len(lookups) /\ lookups[l].pc = "doh"
  /\ LET st == [Res EXCEPT !.lookups[l].replies =
                   Append(@, [rejected |-> FALSE, data |-> data])]
     IN CommitRes(IF data # <<>> THEN CacheStore(st, l, data)
                  ELSE NextBackend(st, l))

\* queryDoH rejects (request error, timeout, no A record, unparsable body).
LookupDohFail(l) ==
  /\ l \in 1..Len(lookups) /\ lookups[l].pc = "doh"
  /\ CommitRes(NextBackend([Res EXCEPT !.lookups[l].replies =
                              Append(@, [rejected |-> TRUE, data |-> <<>>])],
                           l))

\* throw new Error(`Failed to resolve ${hostname}`)
LookupThrow(st, l) ==
  [st EXCEPT !.lookups[l].pc = "failed",
             !.lookups[l].err = FailedToResolve(st.lookups[l].hostname)]

\* dns.resolve4 resolves with a list of addresses: the first one is cached
\* and returned; with an empty list resolveDoH throws.
LookupSysAnswer(l, addresses) ==
  /\ l \in 1..Len(lookups) /\ lookups[l].pc = "sysdns"
  /\ CommitRes(IF Len(addresses) > 0 THEN CacheStore(Res, l, addresses[1])
               ELSE LookupThrow(Res, l))

\* dns.resolve4 rejects: resolveDoH throws.
LookupSysFail(l) ==
  /\ l \in 1..Len(lookups) /\ lookups[l].pc = "sysdns"
  /\ CommitRes(LookupThrow(Res, l))

NextResolver ==
  \/ \E h \in Hostnames : LookupStart(h)
  \/ \E l \in 1..MaxLookups, d \in DohData : LookupDohAnswer(l, d)
  \/ \E l \in 1..MaxLookups : LookupDohFail(l)
  \/ \E l \in 1..MaxLookups, a \in SysAddresses : LookupSysAnswer(l, a)
  \/ \E l \in 1..MaxLookups : LookupSysFail(l)
  \/ \E d \in TickSteps : Tick(d)

SpecResolver == Init /\ [][NextResolver]_vars

----------------------------------------------------------------------------
(* Properties.                                                               *)

Sockets == 1..Len(sockets)
Calls == 1..Len(calls)

\* A step in which a close trigger fires: the client's CLOSE frame, the
\* close or error of the client stream, the end or error of a pumped socket.
\* The CLOSE frame and the error of the stream can fire in the turn of other
\* frames, before the continuations of their handlers have run.
CloseTrigger ==
  \/ Message(TextFrame(CLOSE_FRAME))
  \/ WsClose
  \/ WsError
  \/ \E s \in Sockets : sockets[s].pumps > 0 /\ SocketEnd(s)
  \/ \E s \in Sockets, e \in StreamErrors : sockets[s].pumps > 0 /\ SocketError(s, e)

\* A step in which the processing of a frame fails (the handler's catch).
FrameError ==
  \E k \in 1..Len(calls') :
    /\ calls'[k].pc = "failed"
    /\ (k \in Calls => calls[k].pc # "failed")

\* The calls the program has made to socket.destroy(), per socket.
DestroyCalls(ss) == [s \in 1..Len(ss) |-> ss[s].destroyCalls]

\* C1: teardown is idempotent.  The first close trigger (a frame-processing
\* error included) closes the session; the session stays closed; a trigger
\* that fires on a closed session changes nothing (no frame to the client, no
\* ws.close, no destroy, remoteSocket as it was), and a frame-processing
\* error on a closed session sends no frame and calls no ws.close (the one
\* destroy such a turn can hold is that of the catch block of the dial, lines
\* 457-460, on the socket remoteSocket holds, before the error reaches the
\* handler); destroy is called at most once on any socket and ws.close at
\* most once.
C1_IdempotentTeardown ==
  [][ /\ (isClosed => isClosed')
      /\ ((CloseTrigger \/ FrameError) => isClosed')
      /\ ((isClosed /\ CloseTrigger) =>
            /\ closeCalls' = closeCalls
            /\ toClient' = toClient
            /\ remoteSocket' = remoteSocket
            /\ DestroyCalls(sockets') = DestroyCalls(sockets))
      /\ ((isClosed /\ FrameError) =>
            /\ closeCalls' = closeCalls
            /\ toClient' = toClient
            /\ \A s \in Sockets :
                 sockets'[s].destroyCalls # sockets[s].destroyCalls
                   => s = remoteSocket)
      /\ closeCalls' <= 1
      /\ \A s \in 1..Len(sockets') : sockets'[s].destroyCalls <= 1 ]_vars

\* C1 witness: the session was torn down by cleanup (ws.close called, its
\* socket destroyed) and later triggers have fired: the handler's catch of a
\* frame whose dial failed, and the close of the stream.
C1_Witness ==
  /\ isClosed /\ closeCalls = 1 /\ readyState = "CLOSED"
  /\ \E s \in Sockets : sockets[s].destroyCalls = 1
  /\ \E k \in Calls : calls[k].pc = "failed"

\* The error of the stream fired in the turn of a frame, ahead of the
\* continuation of its handler, whose catch block then found the session
\* closed.
C1_ErrorBeforeCatch ==
  /\ isClosed /\ closeCalls = 1 /\ toClient = <<>>
  /\ \E k \in Calls : calls[k].pc = "failed" /\ calls[k].sock = 0

\* C2: once isClosed is true nothing more is written: no frame is sent to
\* the client and no payload is written to a TCP socket of the session.
C2_NoWriteAfterClosed ==
  /\ \A j \in 1..Len(toClient) : ~toClient[j].closed
  /\ \A s \in Sockets : \A j \in 1..Len(sockets[s].written) :
       ~sockets[s].written[j].closed

\* The retryable class of dial errors, as the claims word it.
RetryableClass(msg) ==
  LET m == ToLowerCase(msg)
  IN \/ Includes(m, <<112,114,111,120,121,32,114,101,113,117,101,115,116>>)  \* "proxy request"
     \/ Includes(m, <<99,97,110,110,111,116,32,99,111,110,110,101,99,116>>)  \* "cannot connect"
     \/ Includes(m, <<101,99,111,110,110,114,101,102,117,115,101,100>>)  \* "econnrefused"
     \/ Includes(m, <<101,116,105,109,101,100,111,117,116>>)  \* "etimedout"

\* The dial plan of a call: the requested host, then the fallback hosts.
Plan(c) == <<c.host>> \o CF_FALLBACK_IPS

\* The sockets a call has opened, and those it opened before socket s.
SocketsOf(k) == {s \in Sockets : sockets[s].owner = k}
Earlier(s) == {t \in Sockets : t < s /\ sockets[t].owner = sockets[s].owner}

\* C3: fallback order.  Every invocation of connectToRemote opens its
\* connections in the order of its plan (H, F1, ..., Fn), each on the
\* requested port and none twice; it opens the next one only after every
\* earlier one failed with a retryable error before connecting; once one has
\* connected it returns and opens no other.  In a session with one CONNECT
\* request the connection that succeeded is the one the session keeps.
C3_FallbackOrder ==
  /\ \A s \in Sockets :
       /\ sockets[s].cand = Cardinality(Earlier(s))
       /\ sockets[s].cand < Len(Plan(calls[sockets[s].owner]))
       /\ sockets[s].target = Plan(calls[sockets[s].owner])[sockets[s].cand + 1]
       /\ sockets[s].port = calls[sockets[s].owner].port
       /\ \A t \in Earlier(s) :
            /\ ~sockets[t].established
            /\ sockets[t].outcome # <<>>
            /\ RetryableClass(sockets[t].outcome)
  /\ \A k \in Calls :
       calls[k].pc = "done" =>
         /\ calls[k].sock \in SocketsOf(k)
         /\ sockets[calls[k].sock].established
         /\ \A t \in SocketsOf(k) : t <= calls[k].sock
  /\ (Len(calls) = 1 /\ calls[1].pc = "done" /\ ~isClosed) =>
       /\ remoteSocket = calls[1].sock
       /\ sockets[remoteSocket].state = "connected"

\* C3 witness: H was refused and F1 timed out (both retryable), F2 connected:
\* three attempts in that order, and the session holds the third socket.
C3_Witness ==
  /\ Len(calls) = 1 /\ calls[1].pc = "done" /\ ~isClosed
  /\ Len(sockets) = 3
  /\ sockets[1].target = calls[1].host
  /\ sockets[2].target = CF_FALLBACK_IPS[1]
  /\ sockets[3].target = CF_FALLBACK_IPS[2]
  /\ sockets[1].outcome = ErrorMessage(ECONNREFUSED, sockets[1].host, calls[1].port)
  /\ sockets[2].outcome = ErrorMessage(ETIMEDOUT, sockets[2].host, calls[1].port)
  /\ RetryableClass(sockets[1].outcome) /\ RetryableClass(sockets[2].outcome)
  /\ remoteSocket = 3 /\ sockets[3].state = "connected"

\* C4: fatal short-circuit.  When a connection attempt fails with an error
\* outside the retryable class, or the attempt of the last candidate fails,
\* the invocation opens no further connection and fails with exactly that
\* error.
C4_FatalShortCircuit ==
  \A s \in Sockets :
    LET k == sockets[s].owner
    IN (/\ sockets[s].outcome # <<>>
        /\ \/ ~RetryableClass(sockets[s].outcome)
           \/ sockets[s].cand = Len(CF_FALLBACK_IPS))
       => /\ calls[k].pc = "failed"
          /\ calls[k].err = sockets[s].outcome
          /\ \A t \in SocketsOf(k) : t <= s

\* C4 witness: the first candidate failed with a fatal error and the call
\* failed with it after that single attempt.
C4_Witness ==
  \E k \in Calls :
    /\ calls[k].pc = "failed"
    /\ Cardinality(SocketsOf(k)) = 1
    /\ \E s \in SocketsOf(k) :
         /\ sockets[s].cand = 0
         /\ sockets[s].outcome # <<>>
         /\ ~RetryableClass(sockets[s].outcome)
         /\ calls[k].err = sockets[s].outcome

\* Exhaustion: all three candidates failed retryably and the call failed with
\* the error of the last one.
C4_Exhausted ==
  \E k \in Calls :
    /\ calls[k].pc = "failed"
    /\ Cardinality(SocketsOf(k)) = Len(CF_FALLBACK_IPS) + 1
    /\ \A s \in SocketsOf(k) : RetryableClass(sockets[s].outcome)
    /\ \E s \in SocketsOf(k) :
         sockets[s].cand = Len(CF_FALLBACK_IPS) /\ calls[k].err = sockets[s].outcome

\* C5: one outstanding connect attempt per session.  A dial is started only
\* when no earlier invocation of connectToRemote is connecting or has
\* succeeded: a CONNECT frame that arrives then starts no second dial.
C5_SingleConnect ==
  [][ Len(calls') > Len(calls) => \A k \in Calls : calls[k].pc = "failed" ]_vars

\* The sockets that are connecting or connected (not destroyed).
Live == {s \in Sockets : sockets[s].state \in {"connecting", "connected"}}

\* C6: a session has at most one socket that is connecting or connected, and
\* none once it is closed.
C6_AtMostOneLiveSocket ==
  /\ Cardinality(Live) <= 1
  /\ isClosed => Live = {}

\* C7: a close of the session aborts the dial in flight: no socket is opened
\* once the session is closed, and no socket is left connecting.
C7_CloseAbortsDial ==
  \A s \in Sockets :
    /\ ~sockets[s].openedClosed
    /\ isClosed => sockets[s].state # "connecting"

IsConnectedNotice(e) == ~e.binary /\ e.data = CONNECTED_FRAME
IsCloseNotice(e) == ~e.binary /\ e.data = CLOSE_FRAME
CloseNotice == [data |-> CLOSE_FRAME, binary |-> FALSE, closed |-> FALSE]

\* C8: order of the frames sent to the client.  A binary frame (bytes of the
\* TCP peer) is preceded by a CONNECTED; there are no more CONNECTED frames
\* than sockets that have connected; when a connected socket of the session
\* ends while the session is not closed, CLOSE is appended to what the client
\* is sent and the session is closed in the same turn; a CLOSE notice is the
\* last frame the client is ever sent.
C8_FrameOrder ==
  [][ /\ \A j \in 1..Len(toClient') :
           /\ toClient'[j].binary =>
                \E i \in 1..(j - 1) : IsConnectedNotice(toClient'[i])
           /\ IsCloseNotice(toClient'[j]) => j = Len(toClient')
      /\ Cardinality({j \in 1..Len(toClient') : IsConnectedNotice(toClient'[j])})
           <= Cardinality({s \in 1..Len(sockets') : sockets'[s].established})
      /\ (~isClosed /\ \E s \in Sockets : SocketEnd(s)) =>
           /\ toClient' = Append(toClient, CloseNotice)
           /\ isClosed'
      /\ \A j \in 1..Len(toClient) :
           IsCloseNotice(toClient[j]) => toClient' = toClient ]_vars

\* A connect error on a socket that carries the pump of another invocation:
\* its error listener runs cleanup before the catch block sends the notice.
ListenerClosedFirst ==
  \E s \in Sockets :
    /\ sockets[s].state = "connecting" /\ sockets[s].pumps > 0
    /\ sockets'[s].state = "destroyed" /\ sockets'[s].outcome # <<>>

\* A step in which the catch block of the handler runs for call k.
Caught(k) ==
  /\ k \in 1..Len(calls') /\ calls'[k].pc = "failed"
  /\ k \in Calls => calls[k].pc # "failed"

\* C9: an error raised while a frame is processed (the failure of the dial
\* included) sends ERROR:<message> to the client as the last frame of that
\* turn when the stream is still open (the message of the first error, when
\* the catch block runs for two frames in one turn), and leaves the session
\* closed with its TCP socket released: remoteSocket is null and no socket of
\* the session is left connecting or connected; a session with a failed dial
\* is closed.
C9_ErrorClosesSession ==
  [][ \A k \in 1..Len(calls') :
        /\ calls'[k].pc = "failed" => isClosed'
        /\ Caught(k) =>
             /\ remoteSocket' = 0
             /\ \A s \in 1..Len(sockets') : sockets'[s].state = "destroyed"
             /\ IF readyState = "OPEN" /\ ~ListenerClosedFirst
                THEN /\ Len(toClient') > Len(toClient)
                     /\ SubSeq(toClient', 1, Len(toClient)) = toClient
                     /\ \E j \in 1..Len(calls') :
                          /\ Caught(j)
                          /\ toClient'[Len(toClient')] =
                               [data |-> ERROR_PREFIX \o calls'[j].err,
                                binary |-> FALSE, closed |-> FALSE]
                ELSE toClient' = toClient ]_vars

\* C10: a connection attempt whose connect timeout has fired does not stay
\* pending: it is failed (released, and followed by the next candidate or by
\* the failure of the dial).
C10_TimeoutFailsAttempt ==
  \A s \in Sockets : ~(sockets[s].timedOut /\ sockets[s].state = "connecting")

\* C15: a binary frame is never a command.  When a binary frame arrives,
\* its bytes, all of them, are appended to what remoteSocket has been
\* written if remoteSocket is set and not destroyed, and nothing else
\* changes; otherwise nothing changes at all.
C15_BinaryNeverControl ==
  [][ \A f \in InFrames :
        (f.binary /\ Message(f)) =>
          /\ UNCHANGED <<isClosed, remoteSocket, readyState, calls, toClient,
                         closeCalls>>
          /\ sockets' =
               IF remoteSocket # 0 /\ sockets[remoteSocket].state # "destroyed"
               THEN [sockets EXCEPT ![remoteSocket].written =
                       Append(@, [data |-> f.data, closed |-> isClosed])]
               ELSE sockets ]_vars

\* C16: order of the bytes written to a socket.  The first payload of the
\* CONNECT frame is the first thing written to the socket its dial ended
\* with, and every write is appended: what was written stays in front.
C16_WriteOrder ==
  [][ /\ \A s \in 1..Len(sockets') :
           LET c == calls'[sockets'[s].owner]
           IN (c.pc = "done" /\ c.sock = s /\ c.first # <<>>) =>
                /\ sockets'[s].written # <<>>
                /\ sockets'[s].written[1].data = c.first
      /\ \A s \in Sockets :
           /\ Len(sockets'[s].written) >= Len(sockets[s].written)
           /\ SubSeq(sockets'[s].written, 1, Len(sockets[s].written))
                = sockets[s].written ]_vars

\* The session is Connecting: a dial is resolving a name or awaiting a socket.
Connecting ==
  ~isClosed /\ \E k \in Calls : calls[k].pc \in {"cached", "doh", "sysdns", "connecting"}

\* C17: a DATA: frame or a binary frame that arrives while the session is
\* Connecting is dropped: nothing is written to a socket, nothing is sent to
\* the client and the session stays as it is.  (The binary frames whose
\* bytes spell a command are left to C15.)
C17_DroppedWhileConnecting ==
  [][ \A f \in InFrames \ CommandLikeFrames :
        (/\ f.binary \/ StartsWith(f.data, DATA_PREFIX)
         /\ Connecting
         /\ Message(f))
        => UNCHANGED <<sockets, toClient, calls, isClosed, remoteSocket,
                       readyState>> ]_vars

\* C18: a failed resolution does not fail or skip the attempt.  For every
\* candidate whose resolution failed the call has opened a socket to the
\* candidate's host string as it stands, on the requested port, and the
\* outcome of that socket decides: when it has connected the dial has
\* succeeded with it; when it has failed with a retryable error and is not
\* the last candidate the call has gone on to the next candidate; when it has
\* failed otherwise the call has failed with that error.  A call never
\* fails with the error of the resolver.
C18_ResolveFailureDialsHost ==
  \A k \in Calls : \A i \in calls[k].unresolved :
    /\ ~IsIP(TargetHost(calls[k], i))
    /\ calls[k].pc = "failed" =>
         calls[k].err # FailedToResolve(TargetHost(calls[k], i))
    /\ \E s \in SocketsOf(k) :
         /\ sockets[s].cand = i
         /\ sockets[s].host = TargetHost(calls[k], i)
         /\ sockets[s].port = calls[k].port
         /\ sockets[s].established =>
              calls[k].pc = "done" /\ calls[k].sock = s
         /\ sockets[s].outcome # <<>> =>
              IF RetryableClass(sockets[s].outcome) /\ i < Len(CF_FALLBACK_IPS)
              THEN calls[k].i > i
              ELSE calls[k].pc = "failed" /\ calls[k].err = sockets[s].outcome

\* The part of C18 the dial keeps in every session: the socket is opened to
\* the host string as it stands, a socket that failed decides what the call
\* does next, and no call fails with the error of the resolver.
C18_Dialed ==
  \A k \in Calls : \A i \in calls[k].unresolved :
    /\ ~IsIP(TargetHost(calls[k], i))
    /\ calls[k].pc = "failed" =>
         calls[k].err # FailedToResolve(TargetHost(calls[k], i))
    /\ \E s \in SocketsOf(k) :
         /\ sockets[s].cand = i
         /\ sockets[s].host = TargetHost(calls[k], i)
         /\ sockets[s].port = calls[k].port
         /\ sockets[s].outcome # <<>> =>
              IF RetryableClass(sockets[s].outcome) /\ i < Len(CF_FALLBACK_IPS)
              THEN calls[k].i > i
              ELSE calls[k].pc = "failed" /\ calls[k].err = sockets[s].outcome

\* C18 witness: the name of the first candidate could not be resolved, the
\* socket opened to the name itself connected and the dial succeeded.
C18_Witness ==
  \E k \in Calls :
    /\ 0 \in calls[k].unresolved /\ calls[k].pc = "done"
    /\ sockets[calls[k].sock].cand = 0
    /\ sockets[calls[k].sock].host = calls[k].host
    /\ sockets[calls[k].sock].established

\* C19: a CONNECT frame that is not well formed fails the session (every
\* CONNECT frame of SpecMalformed is one): its dial never succeeds, no socket
\* it opens connects, and once it has failed the session is closed.
C19_MalformedConnectFails ==
  \A k \in Calls :
    /\ calls[k].pc # "done"
    /\ \A s \in SocketsOf(k) : ~sockets[s].established
    /\ calls[k].pc = "failed" => isClosed

----------------------------------------------------------------------------
(* parseAddress on its own: applied once to an address put together from a  *)
(* host text and a port text, in the plain form host:port, in the bracket   *)
(* form [host]:port, or with no separator at all.                           *)

HostTexts ==
  { <<101,120,97,109,112,108,101,46,99,111,109>>, <<58,58,49>>, <<97>>, <<>>, <<97,58,98>>, <<49,46,49,46,49,46,49>>, <<91,120>>, <<120,93>>, <<104>> }  \* "example.com" "::1" "a" "" "a:b" "1.1.1.1" "[x" "x]" "h"
\* Ports written as decimal numbers, with and without a leading zero.
PortNumbers == {0, 8, 443, 8443, 65535, 65536, 2147483647}
PortText(n, z) == (IF z THEN <<48>> ELSE <<>>) \o DecimalText(NatDigits(n))  \* "0"
\* Port texts that are no decimal number, or a signed or indented one.
OddPortTexts ==
  { <<32,56>>, <<8195,56>>, <<43,56>>, <<45,56>>, <<45,48>>, <<>>, <<56,120>>,  \* " 8" "\u20038" "+8" "-8" "-0" "" "8x"
    <<57,48,48,55,49,57,57,50,53,52,55,52,48,57,57,51>> }  \* "9007199254740993"
PortTexts ==
  {PortText(n, z) : n \in PortNumbers, z \in BOOLEAN} \cup OddPortTexts

Plain(h, p) == h \o <<58>> \o p  \* ":"
Bracketed(h, p) == <<91>> \o h \o <<93, 58>> \o p  \* "[" "]:"

Addresses ==
  {Plain(h, p) : h \in HostTexts, p \in PortTexts}
  \cup {Bracketed(h, p) : h \in HostTexts, p \in PortTexts}
  \cup HostTexts

InitParse ==
  /\ isClosed = FALSE
  /\ remoteSocket = 0
  /\ readyState = "OPEN"
  /\ sockets = <<>>
  /\ calls = <<>>
  /\ toClient = <<>>
  /\ closeCalls = 0
  /\ microtasks = <<>>
  /\ closeFrameReceived = FALSE
  /\ dnsCache = <<>>
  /\ now = 0
  /\ nTicks = 0
  /\ lookups = <<>>
  /\ addrIn \in Addresses
  /\ parsed = <<>>

\* parseAddress(addrIn) is called and returns.
Parse ==
  /\ parsed = <<>>
  /\ parsed' = <<parseAddress(addrIn)>>
  /\ UNCHANGED <<session, dnsCache, now, nTicks, lookups, addrIn>>

NextParse == Parse

SpecParse == InitParse /\ [][NextParse]_vars

\* C14: address parsing.  For [host]:port (host without a bracket, port a
\* decimal number) parseAddress returns the text between the brackets and the
\* number the port text denotes; for host:port, where the address does not
\* begin with '[', it returns everything before the last colon and the
\* number after it.
C14_ParseAddress ==
  parsed # <<>> =>
    \A h \in HostTexts, n \in PortNumbers, z \in BOOLEAN :
      /\ (/\ addrIn = Bracketed(h, PortText(n, z))
          /\ \A j \in 1..Len(h) : h[j] \notin {91, 93})  \* "[]"
           => parsed[1] = [host |-> h, port |-> Num(n)]
      /\ (/\ addrIn = Plain(h, PortText(n, z))
          /\ (h = <<>> \/ h[1] # 91))  \* "["
           => parsed[1] = [host |-> h, port |-> Num(n)]

\* C14 witness: "[::1]:8443" was parsed to ::1 and 8443.
C14_Witness ==
  /\ addrIn = <<91,58,58,49,93,58,56,52,52,51>>  \* "[::1]:8443"
  /\ parsed = <<[host |-> <<58, 58, 49>>, port |-> Num(8443)]>>  \* "::1"

\* "example.com:443" was parsed to example.com and 443.
C14_Example ==
  /\ addrIn = <<101,120,97,109,112,108,101,46,99,111,109,58,52,52,51>>  \* "example.com:443"
  /\ parsed = <<[host |-> <<101,120,97,109,112,108,101,46,99,111,109>>, port |-> Num(443)]>>  \* "example.com"

----------------------------------------------------------------------------
(* Properties of the resolver (SpecResolver).                                *)

Lookups == 1..Len(lookups)

\* A step in which resolveDoH(h) is called.
Called(h) ==
  /\ Len(lookups') = Len(lookups) + 1
  /\ lookups'[Len(lookups')].hostname = h

\* C11: cache TTL.  A call of resolveDoH for a hostname stored at time T
\* that is made before T + DNS_CACHE_TTL returns the stored address, queries
\* no DoH server, does not call dns.resolve4 and leaves the cache as it is;
\* a call made after T + DNS_CACHE_TTL starts the chain at the first DoH
\* server.
C11_CacheTTL ==
  [][ \A h \in Hostnames :
        (Called(h) /\ h \in DOMAIN dnsCache) =>
          LET n == lookups'[Len(lookups')]
              T == dnsCache[h].timestamp
          IN /\ now < T + DNS_CACHE_TTL =>
                  /\ n.pc = "returned" /\ n.result = dnsCache[h].ip
                  /\ n.queried = <<>> /\ ~n.sys
                  /\ dnsCache' = dnsCache
             /\ now > T + DNS_CACHE_TTL =>
                  /\ n.pc = "doh" /\ n.queried = <<DOH_SERVERS[1]>> ]_vars

\* C11 witness: an address was stored for a name by one call, and a second
\* call for that name made DNS_CACHE_TTL - 1 later returned it from the cache.
C11_Witness ==
  \E l \in Lookups, m \in Lookups :
    /\ l < m /\ lookups[l].hostname = lookups[m].hostname
    /\ lookups[l].pc = "returned" /\ lookups[l].queried # <<>>
    /\ lookups[m].pc = "returned" /\ lookups[m].queried = <<>>
    /\ lookups[m].result = lookups[l].result
    /\ lookups[m].at = dnsCache[lookups[m].hostname].timestamp + DNS_CACHE_TTL - 1

\* A call made DNS_CACHE_TTL + 1 after the store is looking the name up again.
C11_Stale ==
  \E m \in Lookups :
    /\ lookups[m].hostname \in DOMAIN dnsCache
    /\ lookups[m].at = dnsCache[lookups[m].hostname].timestamp + DNS_CACHE_TTL + 1
    /\ lookups[m].pc = "doh"

\* A reply of a DoH server that carries an address.
Succeeded(reply) == ~reply.rejected /\ reply.data # <<>>

\* C12: resolver chain.  A lookup queries the DoH servers in the order of
\* DOH_SERVERS, each at most once, and goes to the next one only after a
\* server gave no address; it returns the address of the first server that
\* gave one; dns.resolve4 is called only after all of them failed; the lookup
\* fails only after dns.resolve4 was called as well.
C12_ResolverChain ==
  \A l \in Lookups :
    LET r == lookups[l]
        n == Len(r.queried)
    IN /\ n <= Len(DOH_SERVERS)
       /\ \A j \in 1..n : r.queried[j] = DOH_SERVERS[j]
       /\ Len(r.replies) = IF r.pc = "doh" THEN n - 1 ELSE n
       /\ \A j \in 1..Len(r.replies) :
            Succeeded(r.replies[j]) =>
              /\ j = n /\ r.pc = "returned" /\ ~r.sys
              /\ r.result = r.replies[j].data
       /\ r.sys => n = Len(DOH_SERVERS)
       /\ r.pc = "sysdns" => r.sys
       /\ r.pc = "failed" => r.sys
       /\ (r.pc = "returned" /\ n > 0 /\ ~r.sys) => Succeeded(r.replies[n])

\* C12 witness: the first two DoH servers failed and the third answered: the
\* lookup returned that address without calling dns.resolve4.
C12_Witness ==
  \E l \in Lookups :
    /\ lookups[l].pc = "returned" /\ ~lookups[l].sys
    /\ lookups[l].queried = DOH_SERVERS
    /\ ~Succeeded(lookups[l].replies[1]) /\ ~Succeeded(lookups[l].replies[2])
    /\ lookups[l].result = lookups[l].replies[3].data

\* Every DoH server and dns.resolve4 failed, and the lookup failed.
C12_Exhausted ==
  \E l \in Lookups :
    /\ lookups[l].pc = "failed" /\ lookups[l].sys
    /\ lookups[l].queried = DOH_SERVERS

\* C13: literal-IP bypass.  A call of resolveDoH with a literal IP address
\* returns that string at once: no DoH server is queried, dns.resolve4 is not
\* called and the cache stays as it is, whatever the cache holds.
C13_LiteralBypass ==
  [][ \A h \in Hostnames :
        (Called(h) /\ IsIP(h)) =>
          LET n == lookups'[Len(lookups')]
          IN /\ n.pc = "returned" /\ n.result = h
             /\ n.queried = <<>> /\ n.replies = <<>> /\ ~n.sys
             /\ dnsCache' = dnsCache ]_vars

\* C13 witness: a literal IP was resolved to itself while the cache held an
\* entry (the clock moves only once it does).
C13_Witness ==
  \E l \in Lookups :
    /\ IsIP(lookups[l].hostname)
    /\ lookups[l].at > 0 /\ dnsCache # <<>>
    /\ lookups[l].pc = "returned" /\ lookups[l].result = lookups[l].hostname

\* C20: the cache under interleaved lookups.  No entry is ever removed; an
\* entry is created or changed only in a step in which a lookup of that very
\* hostname gets an address from a DoH server or from dns.resolve4 and returns
\* it, and the entry then holds that address and the time of the step; a
\* lookup that starts (a literal IP and a cache hit included) or fails
\* writes nothing.
C20_CacheInvariant ==
  [][ /\ DOMAIN dnsCache \subseteq DOMAIN dnsCache'
      /\ \A h \in DOMAIN dnsCache' :
           (h \notin DOMAIN dnsCache \/ dnsCache'[h] # dnsCache[h]) =>
             \E l \in Lookups :
               /\ lookups[l].hostname = h
               /\ lookups[l].pc \in {"doh", "sysdns"}
               /\ lookups'[l].pc = "returned"
               /\ lookups'[l].result # <<>>
               /\ lookups[l].pc = "doh" =>
                    lookups'[l].replies[Len(lookups'[l].replies)] =
                      [rejected |-> FALSE, data |-> lookups'[l].result]
               /\ dnsCache'[h] = [ip |-> lookups'[l].result, timestamp |-> now]
      /\ (\E h \in Hostnames : Called(h)) => dnsCache' = dnsCache
      /\ (\E l \in Lookups : lookups[l].pc # "failed" /\ lookups'[l].pc = "failed")
           => dnsCache' = dnsCache ]_vars

\* C20 witness: two lookups of one name each got an address, the second one
\* later than the first and a different one: the entry holds the second.
C20_Witness ==
  \E l \in Lookups, m \in Lookups, h \in DOMAIN dnsCache :
    /\ l # m /\ lookups[l].hostname = h /\ lookups[m].hostname = h
    /\ lookups[l].pc = "returned" /\ lookups[l].queried # <<>>
    /\ lookups[m].pc = "returned" /\ lookups[m].queried # <<>>
    /\ lookups[l].result # lookups[m].result
    /\ dnsCache[h].ip = lookups[m].result
    /\ dnsCache[h].timestamp > 0

====
